---- MODULE Spec2Model ----
(***************************************************************************)
(* LibreChatObsidianSync: the Sync Worker (src/Worker/main.py) and the     *)
(* Tool Gateway's sync tools (src/McpService/tools/obsidian_sync.py) and   *)
(* file tools (src/McpService/tools/file_storage.py), as a state machine   *)
(* over the shared per-user storage directory; and the Gateway's OAuth      *)
(* endpoints (src/McpService/shared/auth.py) and middleware                *)
(* (src/McpService/shared/middleware.py).                                  *)
(*                                                                         *)
(* Abstractions.  A timestamp field of git_config.json is "absent" or      *)
(* "ts" (the value of datetime.utcnow() is not modelled); the error text   *)
(* is "absent" or "err".  A string that the code builds from parts (a      *)
(* path, a file_id) is the sequence of its parts, with "/" a part of its   *)
(* own.  MD5 maps the content values one to one to hash values             *)
(* (collisions are not modelled).  Local disk I/O does not fail; Git and   *)
(* RAG operations do.                                                      *)
(***************************************************************************)
EXTENDS Integers, Sequences, FiniteSets, TLC

\* The user directories under STORAGE_ROOT.
Users == {"alice", "bob"}

\* The users who call the sync tools; the others have a directory with no
\* git_config.json.
SyncUsers == {"alice"}

\* Repository URLs a caller passes to configure.
Repos == {"r1", "r2"}

\* SyncManager.MAX_FAILURES
MAX_FAILURES == 5

\* MAX_FILES_PER_CYCLE, as set in the environment (the default is 10).
MAX_FILES_PER_CYCLE == 2

\* index_file's max_retries
max_retries == 3

\* Scheduler cycles explored by the specifications of the circuit breaker.
MaxCycles == 6

\* Scheduler cycles explored by the specifications of the indexing.
MaxIndexCycles == 2

\* Markdown notes under notes/ in an indexed vault.
NFiles == 3

NoUser == "none"

VARIABLES
    config,        \* config[u]: the content of <root>/u/git_config.json
    tree,          \* tree[u]: <root>/u/obsidian_vault: "none", "nogit" (a
                   \* directory that is no Git checkout), "clean" or "dirty"
    content,       \* content[u][p]: the content of vault file p, or NoFile
    mtime,         \* mtime[u][p]: st_mtime of vault file p
    hashes,        \* hashes[u][p]: the entry of p in sync_hashes.json, or NoHash
    hashExists,    \* hashExists[u]: sync_hashes.json exists
    cycle,         \* process_cycle calls completed by SyncManager.run
    visited,       \* user directories the running process_cycle has iterated over
    skipped_count, \* process_cycle's skipped_count
    wuser,         \* the user the Worker is syncing, or NoUser
    wpc,           \* the Worker's position in that user's sync
    wres,          \* how the sync ended: "ok", or the step that raised
    wcfg,          \* the config _update_sync_status has read
    wchanged,      \* changed_files of the running _index_vault_files
    wplan,         \* its files_to_index
    widx,          \* the position in files_to_index of the next file to index
    posts,         \* posts[u]: POST /embed calls the RAG service has answered
                   \* since the Worker began u's sync
    uploaded,      \* uploaded[u]: the files whose POST /embed it answered 2xx since
    ragErr,        \* ragErr[u]: some RAG request of the Worker failed since
    rreq,          \* rreq[u]: the config a running reset_failures call has read
    resumed,       \* resumed[u]: "reset" once reset_failures has re-opened the
                   \* stopped u, "cycled" once the status of u's next sync is
                   \* written, "no" after the sync that follows or a configure
                   \* (history)
    reindexed,     \* reindexed[u]: "pending" from a successful force_reindex to
                   \* the start of u's next sync, "running" during that sync;
                   \* "partial" once a sync that was running at the force_reindex
                   \* has written a hash again (history)
    fidUser,       \* the user of the file whose file_id the components compute
    fidName,       \* that file's path under the user's vault, as its segments
    fidTool,       \* the file tool of the Gateway that touched the file last
    fidGateway,    \* the file_id that tool computed, or NoId
    fidWorker,     \* the file_id index_file computed for the file, or NoId
    fs,            \* fs[p]: the content of the file at absolute path p, or NoFile
    vec,           \* the rows of the vector DB
    fcall,         \* the file tool call that waits for the RAG service
    fres,          \* how the last file tool call ended
    AUTH_CODES,    \* AUTH_CODES[c]: the user id stored for code c, or NoUser
    TOKENS,        \* TOKENS[t]: the user id stored for token t, or NoUser
    nextCode,      \* the codes generated so far
    nextToken,     \* the tokens generated so far
    codeState,     \* codeState[c]: the state of the authorize request that
                   \* issued code c (history)
    tokenState,    \* tokenState[t]: the state of the authorize request whose
                   \* code was exchanged for token t (history)
    granted,       \* granted[c]: the token requests that obtained a token
                   \* for code c (history)
    aresp,         \* the last response of authorize
    treq,          \* treq[k]: the token request of client k in flight
    tresp,         \* tresp[k]: the last response of token to client k
    hres,          \* the last request the middleware handled
    hash_db,       \* the text of one user's sync_hashes.json, or Absent
    hmem,          \* the dict _update_hash has loaded and changed
    hwritten,      \* the chunks json.dump has written so far
    hpc,           \* the position of the Worker in _update_hash
    hseen,         \* what the last reader of sync_hashes.json got
    cfg_file,      \* the text of one user's git_config.json, or Absent
    cfg_tmp,       \* the text of that user's git_config.json.tmp, or Absent
    cpc,           \* cpc[w]: the position of writer w of git_config.json
    cbuf,          \* cbuf[w]: the text writer w is about to write
    cfd,           \* cfd[w]: the file the open descriptor of writer w is on
    cwritten,      \* the texts written to git_config.json so far (history)
    cstarted,      \* the writes of git_config.json begun so far
    sres,          \* how the last call of configure or reset_failures, or the
                   \* last auto-configuration of the middleware, ended
    ctx_user,      \* the user id in the context of the last request, at its end
    ctx_headers,   \* the sync headers in that context, at the end of the request
    cexit,         \* how the middleware left the last request
    cfg_repo_url,  \* the repo_url of one user's config, as a text
    vault_exists,  \* whether that user's vault directory exists
    origin_url,    \* the URL of the remote 'origin' of the vault, or NoRemote
    gstep,         \* the last step that ran Git in that vault
    last_upload,   \* last_upload[p]: the content given to the last upload_file
                   \* that created the file at path p, or NoFile (history)
    ucall,         \* ucall[t]: the call of upload_file that task t of the
                   \* Gateway runs, and the await it has reached
    ures,          \* ures[t]: how the last call of upload_file of task t ended
    index_count,   \* index_count[u][p]: how often the Worker has indexed file
                   \* p of u's vault (history)
    wlog,          \* the requests to the RAG service, the Git operations and
                   \* the hash writes of the running sync, in their order
                   \* (history)
    irun,          \* the answers of the RAG service to one call of index_file
    ires,          \* what that call of index_file did and returned
    ahead          \* ahead[u]: the branch of u's checkout holds commits that
                   \* are not on the remote branch

storeVars == <<config, tree, content, mtime, hashes, hashExists>>
workerVars ==
    <<cycle, visited, skipped_count, wuser, wpc, wres, wcfg, wchanged, wplan, widx>>
ragVars == <<posts, uploaded, ragErr>>
gatewayVars == <<rreq, resumed, reindexed>>

fidVars == <<fidUser, fidName, fidTool, fidGateway, fidWorker>>

fileVars == <<fs, vec, fcall, fres>>

authVars ==
    <<AUTH_CODES, TOKENS, nextCode, nextToken, codeState, tokenState, granted,
      aresp, treq, tresp, hres>>

hashVars == <<hash_db, hmem, hwritten, hpc, hseen>>
cfgVars == <<cfg_file, cfg_tmp, cpc, cbuf, cfd, cwritten, cstarted>>
diskVars == <<hashVars, cfgVars>>
syncVars == <<sres>>
ctxVars == <<ctx_user, ctx_headers, cexit>>
gitVars == <<cfg_repo_url, vault_exists, origin_url, gstep>>
noteVars == <<last_upload, ucall, ures, index_count>>
logVars == <<wlog>>
idxVars == <<irun, ires>>
aheadVars == <<ahead>>

vars ==
    <<storeVars, workerVars, ragVars, gatewayVars, fidVars, fileVars, authVars,
      diskVars, syncVars, ctxVars, gitVars, noteVars, logVars, idxVars, aheadVars>>

----------------------------------------------------------------------------
(* git_config.json *)

\* No git_config.json in the user's directory.
NoConfig ==
    [exists |-> FALSE, repo_url |-> "", token |-> "", branch |-> "",
     failure_count |-> 0, stopped |-> FALSE,
     last_failure |-> "absent", last_failure_error |-> "absent",
     last_success |-> "absent", auto_configured |-> FALSE]

\* The dict configure_obsidian_sync writes.
NewConfigAt(repo_url, token, branch) ==
    [exists |-> TRUE, repo_url |-> repo_url, token |-> token,
     branch |-> branch, failure_count |-> 0, stopped |-> FALSE,
     last_failure |-> "absent", last_failure_error |-> "absent",
     last_success |-> "absent", auto_configured |-> FALSE]

\* The same for a token and the default branch.
NewConfig(repo) == NewConfigAt(repo, "tok", "main")

\* Faulty variant of the success branch: last_success is not recorded.
UpdateSuccessNoStamp(c) ==
    [c EXCEPT !.failure_count = 0,
              !.stopped = FALSE,
              !.last_failure = "absent"]

\* _update_sync_status, success branch.
UpdateSuccess(c) ==
    [c EXCEPT !.failure_count = 0,
              !.last_success = "ts",
              !.stopped = FALSE,
              !.last_failure = "absent"]

\* Faulty variant of the failure branch: the breaker opens one failure late.
UpdateFailureLate(c) ==
    LET current_failures == c.failure_count + 1
    IN  [c EXCEPT !.failure_count = current_failures,
                  !.last_failure = "ts",
                  !.last_failure_error = "err",
                  !.stopped = IF current_failures > MAX_FAILURES
                              THEN TRUE ELSE c.stopped]

\* _update_sync_status, failure branch.
UpdateFailure(c) ==
    LET current_failures == c.failure_count + 1
    IN  [c EXCEPT !.failure_count = current_failures,
                  !.last_failure = "ts",
                  !.last_failure_error = "err",
                  !.stopped = IF current_failures >= MAX_FAILURES
                              THEN TRUE ELSE c.stopped]

\* The config _update_sync_status writes from the one it has read.
UpdatedStatus(c, result) ==
    IF result = "ok" THEN UpdateSuccess(c) ELSE UpdateFailure(c)

\* Faulty variant of the reset: the count is cleared, stopped is kept.
ResetCountOnly(c) ==
    [c EXCEPT !.failure_count = 0,
              !.last_failure = "absent",
              !.last_failure_error = "absent"]

\* Faulty variant of the reset: last_success is cleared with the failure
\* fields.
ResetAllStamps(c) ==
    [c EXCEPT !.failure_count = 0,
              !.stopped = FALSE,
              !.last_failure = "absent",
              !.last_failure_error = "absent",
              !.last_success = "absent"]

\* reset_obsidian_sync_failures, the reset of the config it has read.
ResetConfig(c) ==
    [c EXCEPT !.failure_count = 0,
              !.stopped = FALSE,
              !.last_failure = "absent",
              !.last_failure_error = "absent"]

----------------------------------------------------------------------------
(* The vault and sync_hashes.json *)

FileNames == <<"a.md", "b.md", "c.md", "d.md", "e.md", "f.md">>

\* The notes of an indexed vault, in a subdirectory.
NotePaths == {<<"notes", FileNames[i]>> : i \in 1..NFiles}

\* A note in a hidden directory and a note at the vault root.
HiddenPath == <<".obsidian", "h.md">>
RootPath == <<"root.md">>

\* A note whose own name starts with a dot.
DotFilePath == <<"notes", ".draft.md">>

\* A file that is no markdown file.
ImagePath == <<"notes", "img.png">>

VaultPaths == NotePaths \cup {HiddenPath, DotFilePath, RootPath, ImagePath}

NoFile == "nofile"
NoHash == "none"

\* hashlib.md5(...).hexdigest() of a file's content.
Md5(c) == IF c = "v1" THEN "h1" ELSE "h2"

\* part.startswith('.')
StartsWithDot(part) == part \in {".obsidian", ".git", ".draft.md"}

\* file.endswith('.md')
EndsWithMd(file) == file # "img.png"

\* Faulty variant of the walk: hidden paths are not excluded.
MdFilesWithHidden(u) ==
    {p \in VaultPaths :
        /\ content[u][p] # NoFile
        /\ EndsWithMd(p[Len(p)])
        /\ Len(p) > 1}

\* The walk of _index_vault_files: the markdown files outside hidden
\* directories and not at the vault root.
MdFiles(u) ==
    {p \in VaultPaths :
        /\ content[u][p] # NoFile
        /\ EndsWithMd(p[Len(p)])
        /\ ~ \E i \in 1..Len(p) : StartsWithDot(p[i])
        /\ Len(p) > 1}

\* Faulty variant of _has_changed: every file counts as changed.
has_changed_always(u, p) == TRUE

\* GitSync._has_changed
has_changed(u, p) == hashes[u][p] # Md5(content[u][p])

\* md_files.sort(key=st_mtime, reverse=True)
RECURSIVE SortByMtimeDesc(_, _)
SortByMtimeDesc(S, mt) ==
    IF S = {} THEN <<>>
    ELSE LET first == CHOOSE x \in S : \A y \in S : mt[y] <= mt[x]
         IN  <<first>> \o SortByMtimeDesc(S \ {first}, mt)

\* Faulty variant of the throttle: the last MAX_FILES_PER_CYCLE files.
ThrottleOldest(changed_files) ==
    SubSeq(changed_files,
           IF Len(changed_files) < MAX_FILES_PER_CYCLE
           THEN 1 ELSE Len(changed_files) - MAX_FILES_PER_CYCLE + 1,
           Len(changed_files))

\* changed_files[:MAX_FILES_PER_CYCLE]
Throttle(changed_files) ==
    SubSeq(changed_files, 1,
           IF Len(changed_files) < MAX_FILES_PER_CYCLE
           THEN Len(changed_files) ELSE MAX_FILES_PER_CYCLE)

\* changed_files as _index_vault_files computes it.
ChangedFiles(u) ==
    LET md_files == SortByMtimeDesc(MdFiles(u), mtime[u])
    IN  SelectSeq(md_files, LAMBDA p : has_changed(u, p))

----------------------------------------------------------------------------
(* IndexingManager.index_file *)

\* What the RAG service does to the DELETE and to the POST of one attempt:
\* "conn" is a connection error or timeout.
Attempts == [del : {"ok", "conn"}, post : {"2xx", "4xx", "5xx", "conn"}]

Runs == [1..(max_retries + 1) -> Attempts]

\* index_file from attempt on, under the answers of run: whether it returns
\* True, the POSTs the service has answered, and whether a request failed.
RECURSIVE index_file(_, _, _, _)
index_file(run, attempt, received, err) ==
    IF attempt > max_retries
    THEN [ok |-> FALSE, received |-> received, err |-> TRUE]
    ELSE LET r == run[attempt + 1]
             retry == attempt < max_retries
         IN  IF r.del = "conn" /\ retry
             THEN index_file(run, attempt + 1, received, TRUE)
             ELSE IF r.post = "2xx"
             THEN [ok |-> TRUE, received |-> received + 1,
                   err |-> err \/ r.del = "conn"]
             ELSE IF r.post = "conn"
             THEN IF retry
                  THEN index_file(run, attempt + 1, received, TRUE)
                  ELSE [ok |-> FALSE, received |-> received, err |-> TRUE]
             ELSE IF r.post = "5xx" /\ retry
             THEN index_file(run, attempt + 1, received + 1, TRUE)
             ELSE [ok |-> FALSE, received |-> received + 1, err |-> TRUE]

\* Faulty variant of index_file: a 4xx answer is retried as well.
RECURSIVE index_file_retry_all(_, _, _)
index_file_retry_all(run, attempt, sent) ==
    IF attempt > max_retries
    THEN [done |-> TRUE, ok |-> FALSE, sent |-> sent]
    ELSE LET r == run[attempt + 1]
             retry == attempt < max_retries
             now == Append(sent, r.post)
         IN  IF r.del = "conn" /\ retry
             THEN index_file_retry_all(run, attempt + 1, sent)
             ELSE IF r.post = "2xx"
             THEN [done |-> TRUE, ok |-> TRUE, sent |-> now]
             ELSE IF retry
             THEN index_file_retry_all(run, attempt + 1, now)
             ELSE [done |-> TRUE, ok |-> FALSE, sent |-> now]

\* index_file from attempt on, under the answers of run, with the answers
\* to the POST /embed requests it has made so far in sent: what it returns
\* and the answers to all its POST /embed requests.
RECURSIVE index_file_trace(_, _, _)
index_file_trace(run, attempt, sent) ==
    IF attempt > max_retries
    THEN [done |-> TRUE, ok |-> FALSE, sent |-> sent]
    ELSE LET r == run[attempt + 1]
             retry == attempt < max_retries
             now == Append(sent, r.post)
         IN  IF r.del = "conn" /\ retry
             THEN index_file_trace(run, attempt + 1, sent)
             ELSE IF r.post = "2xx"
             THEN [done |-> TRUE, ok |-> TRUE, sent |-> now]
             ELSE IF r.post \in {"conn", "5xx"} /\ retry
             THEN index_file_trace(run, attempt + 1, now)
             ELSE [done |-> TRUE, ok |-> FALSE, sent |-> now]

\* No call of index_file is made.
NoTrace == [done |-> FALSE, ok |-> FALSE, sent |-> <<>>]

IndexCallIdle ==
    /\ irun = <<>>
    /\ ires = NoTrace

\* self.indexer.index_file(file_path) under the answers irun.
IndexFileCall ==
    /\ ~ires.done
    /\ ires' = index_file_trace(irun, 0, <<>>)
    /\ UNCHANGED irun
    /\ UNCHANGED <<storeVars, workerVars, ragVars, gatewayVars, fidVars, fileVars,
                   authVars, diskVars, syncVars, ctxVars, gitVars, noteVars, logVars,
                   aheadVars>>

\* The results of index_file under every behaviour of the RAG service.
IndexOutcomes == {index_file(run, 0, 0, FALSE) : run \in Runs}

\* Faulty variant of the loop body of _index_vault_files: the entry is
\* left as it is.
HashNotUpdated(ok, old, new) == old

\* The entry of a file in sync_hashes.json after the loop body of
\* _index_vault_files: index_file's result is not looked at.
HashAfterIndex(ok, old, new) == new

\* The result of index_file when the RAG service answers the DELETE and the
\* POST of the first attempt with success.
IndexSucceeds ==
    index_file([i \in 1..(max_retries + 1) |-> [del |-> "ok", post |-> "2xx"]],
               0, 0, FALSE)

----------------------------------------------------------------------------
(* Sync Worker *)

WorkerIdle == wpc = "idle"

\* Leave the sync of the current user, normally ("ok") or with the exception
\* of the step that raised: process_cycle goes on to _update_sync_status.
Finish(result) ==
    /\ wres' = result
    /\ wpc' = "status_read"

\* Faulty variant of the iteration of process_cycle: stopped is not looked at.
VisitAll(u, limit) ==
    /\ WorkerIdle
    /\ cycle < limit
    /\ u \notin visited
    /\ visited' = visited \cup {u}
    /\ IF ~config[u].exists
       THEN UNCHANGED <<wuser, wpc, ragVars, reindexed, wlog>>
       ELSE /\ wuser' = u
            /\ wlog' = <<>>
            /\ wpc' = "construct"
            /\ posts' = [posts EXCEPT ![u] = 0]
            /\ uploaded' = [uploaded EXCEPT ![u] = {}]
            /\ ragErr' = [ragErr EXCEPT ![u] = FALSE]
            /\ reindexed' = [reindexed EXCEPT ![u] =
                                IF @ = "pending" THEN "running" ELSE "no"]
    /\ UNCHANGED <<fidVars, fileVars, authVars, diskVars, syncVars, ctxVars, gitVars, noteVars, idxVars, aheadVars>>
    /\ UNCHANGED <<storeVars, cycle, skipped_count, wres, wcfg, wchanged, wplan,
                   widx, rreq, resumed>>

\* process_cycle, one iteration of the loop over STORAGE_ROOT.iterdir():
\* read git_config.json, skip a user without one or a stopped one.
Visit(u, limit) ==
    /\ WorkerIdle
    /\ cycle < limit
    /\ u \notin visited
    /\ visited' = visited \cup {u}
    /\ IF ~config[u].exists
       THEN UNCHANGED <<skipped_count, wuser, wpc, ragVars, reindexed, wlog>>
       ELSE IF config[u].stopped
       THEN /\ skipped_count' = skipped_count + 1
            /\ UNCHANGED <<wuser, wpc, ragVars, reindexed, wlog>>
       ELSE /\ wuser' = u
            /\ wlog' = <<>>
            /\ wpc' = "construct"
            /\ posts' = [posts EXCEPT ![u] = 0]
            /\ uploaded' = [uploaded EXCEPT ![u] = {}]
            /\ ragErr' = [ragErr EXCEPT ![u] = FALSE]
            /\ reindexed' = [reindexed EXCEPT ![u] =
                                IF @ = "pending" THEN "running" ELSE "no"]
            /\ UNCHANGED skipped_count
    /\ UNCHANGED <<fidVars, fileVars, authVars, diskVars, syncVars, ctxVars, gitVars, noteVars, idxVars, aheadVars>>
    /\ UNCHANGED <<storeVars, cycle, wres, wcfg, wchanged, wplan, widx, rreq,
                   resumed>>

\* The files _cleanup_hidden_directory_files_from_rag finds: in os.walk a
\* root with a part that starts with '.' is skipped; of the files of the
\* other directories those are taken that end with '.md' and have a part
\* that starts with '.'.
HiddenFiles(u) ==
    {p \in VaultPaths :
        /\ content[u][p] # NoFile
        /\ ~ \E i \in 1..(Len(p) - 1) : StartsWithDot(p[i])
        /\ EndsWithMd(p[Len(p)])
        /\ \E i \in 1..Len(p) : StartsWithDot(p[i])}

\* IndexingManager.get_file_id: f"user_{self.user_id}_{filename}"
IndexingManager_get_file_id(user_id, filename) ==
    <<"user_", user_id, "_">> \o filename

\* file_id = self.get_file_id(path.name)
CleanupFileId(u, p) == IndexingManager_get_file_id(u, <<p[Len(p)]>>)

\* An entry of the log of a sync.
LogEntry(step, arg) == [step |-> step, arg |-> arg]

RECURSIVE CleanupRequests(_, _)
CleanupRequests(u, files) ==
    IF files = {} THEN <<>>
    ELSE LET p == CHOOSE x \in files : TRUE
         IN  <<LogEntry("cleanup", CleanupFileId(u, p))>>
                 \o CleanupRequests(u, files \ {p})

LogIdle == wlog = <<>>

\* Every checkout is level with its remote branch.
AheadIdle == ahead = [u \in Users |-> FALSE]

\* GitSync.__init__: builds the IndexingManager and runs the cleanup of
\* hidden-directory files: a DELETE /embed for each file found, whose
\* errors are logged and swallowed.
Construct ==
    /\ wpc = "construct"
    /\ wpc' = "ensure"
    /\ wlog' = wlog \o CleanupRequests(wuser, HiddenFiles(wuser))
    /\ UNCHANGED <<fidVars, fileVars, authVars, diskVars, syncVars, ctxVars, gitVars, noteVars, idxVars, aheadVars>>
    /\ UNCHANGED <<storeVars, cycle, visited, skipped_count, wuser, wres, wcfg,
                   wchanged, wplan, widx, ragVars, gatewayVars>>

\* GitSync._ensure_repo and setup_credential_store. Without a vault directory
\* it makes the directory and clones into it (ok: the clone succeeds); a
\* directory that is no checkout makes Repo(vault_path) raise.
EnsureRepo(ok) ==
    /\ wpc = "ensure"
    /\ IF tree[wuser] = "none"
       THEN IF ok
            THEN /\ tree' = [tree EXCEPT ![wuser] = "clean"]
                 /\ ahead' = [ahead EXCEPT ![wuser] = FALSE]
                 /\ wpc' = "pull"
                 /\ UNCHANGED wres
            ELSE /\ tree' = [tree EXCEPT ![wuser] = "nogit"]
                 /\ Finish("ensure_failed")
                 /\ UNCHANGED ahead
       ELSE IF tree[wuser] = "nogit"
            THEN /\ Finish("ensure_failed")
                 /\ UNCHANGED <<tree, ahead>>
            ELSE /\ wpc' = "pull"
                 /\ UNCHANGED <<tree, wres, ahead>>
    /\ wlog' = Append(wlog, LogEntry("ensure", <<>>))
    /\ UNCHANGED <<fidVars, fileVars, authVars, diskVars, syncVars, ctxVars, gitVars, noteVars, idxVars>>
    /\ UNCHANGED <<config, content, mtime, hashes, hashExists, cycle, visited,
                   skipped_count, wuser, wcfg, wchanged, wplan, widx, ragVars,
                   gatewayVars>>

\* repo.remotes.origin.pull(self.branch), where answers[i] is whether the
\* remote lets the i-th attempt succeed: the one attempt is made and a
\* failure re-raised.
PullAnswered(answers) ==
    /\ wpc = "pull"
    /\ IF answers[1]
       THEN /\ wpc' = "index"
            /\ UNCHANGED wres
       ELSE Finish("pull_failed")
    /\ wlog' = Append(wlog, LogEntry("pull", answers))
    /\ UNCHANGED <<fidVars, fileVars, authVars, diskVars, syncVars, ctxVars, gitVars, noteVars, idxVars, aheadVars>>
    /\ UNCHANGED <<storeVars, cycle, visited, skipped_count, wuser, wcfg, wchanged,
                   wplan, widx, ragVars, gatewayVars>>

Pull(ok) == PullAnswered(<<ok>>)

\* repo.remotes.origin.pull(self.branch) does not return: the Git command
\* has no timeout, and the Worker's one thread waits for it.
PullHangs ==
    /\ wpc = "pull"
    /\ wpc' = "hung"
    /\ UNCHANGED <<fidVars, fileVars, authVars, diskVars, syncVars, ctxVars, gitVars, noteVars, logVars, idxVars, aheadVars>>
    /\ UNCHANGED <<storeVars, cycle, visited, skipped_count, wuser, wres, wcfg,
                   wchanged, wplan, widx, ragVars, gatewayVars>>

\* _index_vault_files up to the loop over files_to_index.
IndexScan ==
    /\ wpc = "index"
    /\ wchanged' = ChangedFiles(wuser)
    /\ wplan' = Throttle(wchanged')
    /\ widx' = 1
    /\ wpc' = IF wplan' = <<>> THEN "push" ELSE "indexing"
    /\ UNCHANGED <<fidVars, fileVars, authVars, diskVars, syncVars, ctxVars, gitVars, noteVars, logVars, idxVars, aheadVars>>
    /\ UNCHANGED <<storeVars, cycle, visited, skipped_count, wuser, wres, wcfg,
                   ragVars, gatewayVars>>

\* One iteration of the loop of _index_vault_files: index_file, which ends as
\* out, then _update_hash (read sync_hashes.json or start from {}, set the
\* entry, write the file).
IndexFileStep(out) ==
    /\ wpc = "indexing"
    /\ LET p == wplan[widx]
       IN  /\ posts' = [posts EXCEPT ![wuser] = @ + out.received]
           /\ uploaded' = [uploaded EXCEPT ![wuser] =
                              IF out.ok THEN @ \cup {p} ELSE @]
           /\ ragErr' = [ragErr EXCEPT ![wuser] = @ \/ out.err]
           /\ hashes' = [hashes EXCEPT ![wuser][p] =
                            HashAfterIndex(out.ok, @, Md5(content[wuser][p]))]
           /\ hashExists' = [hashExists EXCEPT ![wuser] = TRUE]
    /\ reindexed' = [reindexed EXCEPT ![wuser] =
                         IF @ = "pending" THEN "partial" ELSE @]
    /\ widx' = widx + 1
    /\ wpc' = IF widx = Len(wplan) THEN "push" ELSE "indexing"
    /\ wlog' = wlog \o (IF out.received > 0
                          THEN <<LogEntry("post", wplan[widx])>> ELSE <<>>)
                     \o <<LogEntry("hash", wplan[widx])>>
    /\ UNCHANGED <<fidVars, fileVars, authVars, diskVars, syncVars, ctxVars, gitVars, idxVars, aheadVars>>
    /\ UNCHANGED <<config, tree, content, mtime, cycle, visited, skipped_count,
                   wuser, wres, wcfg, wchanged, wplan, rreq, resumed>>

IndexFile(out) ==
    /\ IndexFileStep(out)
    /\ UNCHANGED noteVars

\* The same, with the indexed file counted.
IndexFileCounted(out) ==
    /\ IndexFileStep(out)
    /\ index_count' = [index_count EXCEPT ![wuser][wplan[widx]] = @ + 1]
    /\ UNCHANGED <<last_upload, ucall, ures>>

\* The push step of GitSync.sync: a dirty tree is added, committed and
\* pushed. committed: git add and commit succeeded; answers[i]: the remote
\* lets the i-th attempt of the push succeed; the one attempt is made.  A
\* push sends every commit of the branch; a clean tree is not pushed.
PushAnswered(committed, answers) ==
    /\ wpc = "push"
    /\ IF tree[wuser] = "dirty"
       THEN IF committed
            THEN /\ tree' = [tree EXCEPT ![wuser] = "clean"]
                 /\ Finish(IF answers[1] THEN "ok" ELSE "push_failed")
                 /\ wlog' = Append(wlog, LogEntry("push", answers))
                 /\ ahead' = [ahead EXCEPT ![wuser] = ~answers[1]]
            ELSE /\ Finish("push_failed")
                 /\ UNCHANGED <<tree, wlog, ahead>>
       ELSE /\ Finish("ok")
            /\ UNCHANGED <<tree, wlog, ahead>>
    /\ wchanged' = <<>>
    /\ wplan' = <<>>
    /\ widx' = 0
    /\ UNCHANGED <<fidVars, fileVars, authVars, diskVars, syncVars, ctxVars, gitVars, noteVars, idxVars>>
    /\ UNCHANGED <<config, content, mtime, hashes, hashExists, cycle, visited,
                   skipped_count, wuser, wcfg, ragVars, gatewayVars>>

Push(committed, pushed) == PushAnswered(committed, <<pushed>>)

\* _update_sync_status up to json.load: returns when there is no config.
StatusRead ==
    /\ wpc = "status_read"
    /\ IF config[wuser].exists
       THEN /\ wcfg' = config[wuser]
            /\ wpc' = "status_write"
            /\ UNCHANGED <<wuser, wlog>>
       ELSE /\ wpc' = "idle"
            /\ wuser' = NoUser
            /\ wlog' = <<>>
            /\ UNCHANGED wcfg
    /\ UNCHANGED <<fidVars, fileVars, authVars, diskVars, syncVars, ctxVars, gitVars, noteVars, idxVars, aheadVars>>
    /\ UNCHANGED <<storeVars, cycle, visited, skipped_count, wres, wchanged, wplan,
                   widx, ragVars, gatewayVars>>

\* _update_sync_status from json.load on: update the dict, write the
\* temporary file and rename it over git_config.json.
StatusWrite ==
    /\ wpc = "status_write"
    /\ config' = [config EXCEPT ![wuser] = UpdatedStatus(wcfg, wres)]
    /\ resumed' = [resumed EXCEPT ![wuser] =
                       IF @ = "reset" THEN "cycled" ELSE "no"]
    /\ wpc' = "idle"
    /\ wuser' = NoUser
    /\ wcfg' = NoConfig
    /\ wlog' = <<>>
    /\ UNCHANGED <<fidVars, fileVars, authVars, diskVars, syncVars, ctxVars, gitVars, noteVars, idxVars, aheadVars>>
    /\ UNCHANGED <<tree, content, mtime, hashes, hashExists, cycle, visited,
                   skipped_count, wres, wchanged, wplan, widx, ragVars, rreq,
                   reindexed>>

\* process_cycle returns; run sleeps and calls it again.
EndCycle ==
    /\ WorkerIdle
    /\ visited = Users
    /\ visited' = {}
    /\ skipped_count' = 0
    /\ cycle' = cycle + 1
    /\ UNCHANGED <<fidVars, fileVars, authVars, diskVars, syncVars, ctxVars, gitVars, noteVars, logVars, idxVars, aheadVars>>
    /\ UNCHANGED <<storeVars, wuser, wpc, wres, wcfg, wchanged, wplan, widx, ragVars,
                   gatewayVars>>

----------------------------------------------------------------------------
(* Tool Gateway: sync tools *)

\* Faulty variant of configure: the new values are merged into the old config.
ConfigureMerge(u, repo) ==
    /\ config' = [config EXCEPT ![u] =
                     [@ EXCEPT !.exists = TRUE, !.repo_url = repo,
                               !.failure_count = 0, !.stopped = FALSE]]
    /\ resumed' = [resumed EXCEPT ![u] = "no"]
    /\ UNCHANGED <<fidVars, fileVars, authVars, diskVars, syncVars, ctxVars, gitVars, noteVars, logVars, idxVars, aheadVars>>
    /\ UNCHANGED <<tree, content, mtime, hashes, hashExists, workerVars, ragVars,
                   rreq, reindexed>>

\* configure_obsidian_sync with repo_url and token given and no placeholder.
Configure(u, repo) ==
    /\ config' = [config EXCEPT ![u] = NewConfig(repo)]
    /\ resumed' = [resumed EXCEPT ![u] = "no"]
    /\ UNCHANGED <<fidVars, fileVars, authVars, diskVars, syncVars, ctxVars, gitVars, noteVars, logVars, idxVars, aheadVars>>
    /\ UNCHANGED <<tree, content, mtime, hashes, hashExists, workerVars, ragVars,
                   rreq, reindexed>>

\* reset_obsidian_sync_failures up to json.loads (it awaits the read and the
\* write, so other requests and the Worker run in between).
ResetRead(u) ==
    /\ ~rreq[u].exists
    /\ config[u].exists
    /\ rreq' = [rreq EXCEPT ![u] = config[u]]
    /\ UNCHANGED <<fidVars, fileVars, authVars, diskVars, syncVars, ctxVars, gitVars, noteVars, logVars, idxVars, aheadVars>>
    /\ UNCHANGED <<storeVars, workerVars, ragVars, resumed, reindexed>>

\* reset_obsidian_sync_failures from json.loads on.
ResetWrite(u) ==
    /\ rreq[u].exists
    /\ config' = [config EXCEPT ![u] = ResetConfig(rreq[u])]
    /\ rreq' = [rreq EXCEPT ![u] = NoConfig]
    /\ resumed' = [resumed EXCEPT ![u] =
                       IF config[u].stopped THEN "reset" ELSE @]
    /\ UNCHANGED <<fidVars, fileVars, authVars, diskVars, syncVars, ctxVars, gitVars, noteVars, logVars, idxVars, aheadVars>>
    /\ UNCHANGED <<tree, content, mtime, hashes, hashExists, workerVars, ragVars,
                   reindexed>>

\* force_complete_reindex of a user with a git_config.json: unlink
\* sync_hashes.json if it exists.
ForceReindex(u) ==
    /\ config[u].exists
    /\ hashExists' = [hashExists EXCEPT ![u] = FALSE]
    /\ hashes' = [hashes EXCEPT ![u] = [p \in VaultPaths |-> NoHash]]
    /\ reindexed' = [reindexed EXCEPT ![u] = "pending"]
    /\ UNCHANGED <<fidVars, fileVars, authVars, diskVars, syncVars, ctxVars, gitVars, noteVars, logVars, idxVars, aheadVars>>
    /\ UNCHANGED <<config, tree, content, mtime, workerVars, ragVars, rreq,
                   resumed>>

----------------------------------------------------------------------------
(* file_id *)

\* STORAGE_ROOT, a path as the sequence of its segments.
STORAGE_ROOT == <<"storage">>

\* get_user_storage_path (Gateway), STORAGE_ROOT / user_id (Worker)
UserDir(u) == STORAGE_ROOT \o <<u>>

\* user_dir / "obsidian_vault", IndexingManager.vault_path
VaultDir(u) == UserDir(u) \o <<"obsidian_vault">>

\* str(path) of a relative path: the segments joined by "/".
RECURSIVE PathStr(_)
PathStr(segs) ==
    IF Len(segs) = 0 THEN <<>>
    ELSE IF Len(segs) = 1 THEN segs
    ELSE <<Head(segs), "/">> \o PathStr(Tail(segs))

\* path.relative_to(base) succeeds / its result.
IsRelativeTo(path, base) ==
    /\ Len(base) <= Len(path)
    /\ SubSeq(path, 1, Len(base)) = base

RelativeTo(path, base) == SubSeq(path, Len(base) + 1, Len(path))

\* get_file_id of the Gateway: f"user_{user_id}_{filename}"
get_file_id(user_id, filename) == <<"user_", user_id, "_">> \o filename

\* The file_id upload_file, modify_file and delete_file compute for the
\* filename they are called with, a path relative to the user's directory.
GatewayFileId(user_id, filename) == get_file_id(user_id, PathStr(filename))

\* The file_id index_file computes for file_path: of the path relative to
\* the vault, or of the base name for a file outside the vault.
WorkerFileId(user_id, file_path) ==
    LET filename == IF IsRelativeTo(file_path, VaultDir(user_id))
                    THEN PathStr(RelativeTo(file_path, VaultDir(user_id)))
                    ELSE <<file_path[Len(file_path)]>>
    IN  IndexingManager_get_file_id(user_id, filename)

\* Directory levels of the vault files explored.
MaxDirs == 2

DirNames == {"notes", "daily"}
NoteNames == {"a.md", "b.md"}

\* Paths of notes under the vault, in 1..MaxDirs directories.
RECURSIVE DirPaths(_)
DirPaths(n) ==
    IF n = 0 THEN {<<>>}
    ELSE {<<d>> \o r : d \in DirNames, r \in DirPaths(n - 1)}

FidNames ==
    {dir \o <<f>> : dir \in UNION {DirPaths(n) : n \in 1..MaxDirs},
                    f \in NoteNames}

\* The filenames a caller passes to the file tools.
GatewayFilenames == FidNames \cup {<<"obsidian_vault">> \o n : n \in FidNames}

FileTools == {"upload_file", "modify_file", "delete_file"}

\* The file whose ids are compared.
FidPath == VaultDir(fidUser) \o fidName

\* upload_file, modify_file or delete_file called by fidUser with a filename
\* that names the file (file_path = user_dir / filename): the file_id of its
\* RAG request.
GatewayTouch(tool, filename) ==
    /\ UserDir(fidUser) \o filename = FidPath
    /\ fidTool' = tool
    /\ fidGateway' = GatewayFileId(fidUser, filename)
    /\ UNCHANGED <<fidUser, fidName, fidWorker>>
    /\ UNCHANGED <<storeVars, workerVars, ragVars, gatewayVars, fileVars,
                   authVars, diskVars, syncVars, ctxVars, gitVars, noteVars, logVars, idxVars, aheadVars>>

\* index_file called by the Worker for the file: the file_id of its requests.
WorkerIndexId ==
    /\ fidWorker' = WorkerFileId(fidUser, FidPath)
    /\ UNCHANGED <<fidUser, fidName, fidTool, fidGateway>>
    /\ UNCHANGED <<storeVars, workerVars, ragVars, gatewayVars, fileVars,
                   authVars, diskVars, syncVars, ctxVars, gitVars, noteVars, logVars, idxVars, aheadVars>>

----------------------------------------------------------------------------
(* Tool Gateway: file tools *)

\* get_current_user of a request whose context holds ctx: it raises
\* ValueError when no user id is set or the id is an unreplaced placeholder.
PlaceholderUser == "{{user}}"

\* Faulty variant of get_current_user: whatever the context holds is returned.
get_current_user_unchecked(ctx) == [ok |-> TRUE, user |-> ctx]

get_current_user(ctx) ==
    [ok |-> ctx \notin {NoUser, PlaceholderUser}, user |-> ctx]

\* The user context of a tool call: a user id, or none.
Contexts == Users \cup {NoUser}

\* A file of the storage root that belongs to no user.
SENSITIVE == STORAGE_ROOT \o <<"sensitive.txt">>

\* The note of a vault the file tools work on.
NotePath == <<"notes", "a.md">>

\* The files of the storage root, by their absolute paths (the directories
\* that hold them exist).
FsPaths ==
    {VaultDir(u) \o p : u \in Users, p \in {NotePath, HiddenPath, DotFilePath}}
        \cup {SENSITIVE}

\* The path the operating system resolves a path with ".." segments to.
RECURSIVE Normalise(_, _)
Normalise(done, rest) ==
    IF Len(rest) = 0 THEN done
    ELSE IF Head(rest) = ".."
         THEN Normalise(IF Len(done) = 0 THEN done
                        ELSE SubSeq(done, 1, Len(done) - 1), Tail(rest))
         ELSE Normalise(Append(done, Head(rest)), Tail(rest))

OsPath(path) == Normalise(<<>>, path)

\* file_path = user_dir / filename
FilePath(user_id, filename) == UserDir(user_id) \o filename

\* file_path.exists()
Exists(file_path) ==
    /\ OsPath(file_path) \in FsPaths
    /\ fs[OsPath(file_path)] # NoFile

\* Path(str).parts of a path string: its segments.
Parts(str) == SelectSeq(str, LAMBDA t : t # "/")

\* user_dir / filename for a filename string (an absolute one replaces
\* user_dir).
JoinPath(user_dir, filename) ==
    IF Len(filename) > 0 /\ filename[1] = "/"
    THEN Parts(filename)
    ELSE user_dir \o Parts(filename)

HashFileNames == {"sync_hashes.json", "git_config.json"}

\* _should_exclude_file
should_exclude_file(file_path, user_dir) ==
    IF ~IsRelativeTo(file_path, user_dir)
    THEN Len(file_path) > 0 /\ file_path[Len(file_path)] \in HashFileNames
    ELSE LET relative_path == RelativeTo(file_path, user_dir)
         IN  IF Len(relative_path) <= 1 THEN TRUE
             ELSE IF \E i \in 1..Len(relative_path) : relative_path[i] = ".git"
                  THEN TRUE
             ELSE IF relative_path[Len(relative_path)] \in HashFileNames
                  THEN TRUE
             ELSE \E i \in 1..Len(relative_path) :
                      StartsWithDot(relative_path[i])

\* The files list_files collects: those under a subdirectory of user_dir
\* whose name starts with no dot, without the excluded ones; each by its
\* path relative to user_dir.
ListedFiles(user_id) ==
    LET user_dir == UserDir(user_id)
        files == {p \in FsPaths :
                     /\ fs[p] # NoFile
                     /\ IsRelativeTo(p, user_dir)
                     /\ Len(p) > Len(user_dir) + 1
                     /\ ~StartsWithDot(p[Len(user_dir) + 1])
                     /\ ~should_exclude_file(p, user_dir)}
    IN  {RelativeTo(p, user_dir) : p \in files}

\* A row of langchain_pg_embedding: custom_id, cmetadata's user_id and
\* filename (NoFilename when the metadata holds none), and the document,
\* named by the file its text was taken from.
NoFilename == <<>>

VecRecord(custom_id, user_id, filename, document) ==
    [custom_id |-> custom_id, user_id |-> user_id, filename |-> filename,
     document |-> document]

\* The filename _query_vectordb_direct gives a row: the metadata's, else
\* the custom_id without its "user_<user_id>_" prefix, else "unknown".
UnknownFilename == <<"unknown">>

RowFilename(row, user_id) ==
    IF row.filename # NoFilename THEN row.filename
    ELSE IF /\ Len(row.custom_id) >= 3
            /\ SubSeq(row.custom_id, 1, 3) = <<"user_", user_id, "_">>
         THEN SubSeq(row.custom_id, 4, Len(row.custom_id))
    ELSE UnknownFilename

\* The row is skipped: its filename is a base name, or the path it names
\* under user_dir is excluded.
RowSkipped(row, user_id) ==
    LET filename == RowFilename(row, user_id)
    IN  /\ filename # UnknownFilename
        /\ \/ Len(Parts(filename)) <= 1
           \/ should_exclude_file(JoinPath(UserDir(user_id), filename),
                                  UserDir(user_id))

\* _query_vectordb_direct for a vector DB that holds at most max_results
\* rows of the user: the rows of the user that are not skipped.
query_vectordb_direct(user_id) ==
    {[content |-> row.document, filename |-> RowFilename(row, user_id)] :
        row \in {r \in vec : r.user_id = user_id /\ ~RowSkipped(r, user_id)}}

\* No tool call is running; no tool call has returned.
NoCall ==
    [tool |-> "none", ctx |-> NoUser, filename |-> <<>>, content |-> NoFile,
     old |-> NoFile]

NoResult ==
    [tool |-> "none", ctx |-> NoUser, filename |-> <<>>, kind |-> "none",
     text |-> NoFile, listed |-> {}, found |-> {}, path |-> <<>>,
     effect |-> "none", old |-> NoFile, rag |-> "none", git |-> "none"]

\* The call of tool with filename has ended: kind is "ok" (its success
\* result), "Error" (a result string that starts with "Error:"), or the
\* exception it raised.  path is the file it has read or written, old that
\* file's content before the call, rag whether its requests to the RAG
\* service succeeded, git what became of the Git commit.
Ended(tool, ctx, filename, kind) ==
    [NoResult EXCEPT !.tool = tool, !.ctx = ctx, !.filename = filename,
                     !.kind = kind]

\* _trigger_git_commit: it returns early without a git_config.json, for a
\* stopped sync and for a file that is not under the vault; else it commits
\* and pushes, and any failure is swallowed.
GitOutcomes == {"committed", "failed"}

trigger_git_commit(user_id, file_path, git) ==
    IF /\ config[user_id].exists
       /\ ~config[user_id].stopped
       /\ IsRelativeTo(file_path, VaultDir(user_id))
    THEN git
    ELSE "skipped"

\* Faulty variant of the tools' Git step: a failure is raised to the caller.
GitRaises(done, outcome) ==
    [done EXCEPT !.git = outcome,
                 !.kind = IF outcome = "failed" THEN "Exception" ELSE @]

\* try: await _trigger_git_commit(...) except Exception: print(...), then
\* the tool's return: the outcome of the Git step does not change the result.
GitBestEffort(done, outcome) == [done EXCEPT !.git = outcome]

\* The row POST /embed stores for a file tool's request.
EmbeddedRow(user_id, filename) ==
    VecRecord(GatewayFileId(user_id, filename), user_id, PathStr(filename),
              OsPath(FilePath(user_id, filename)))

\* The rows left by DELETE /embed/<file_id>.
WithoutFileId(rows, file_id) == {r \in rows : r.custom_id # file_id}

Texts == {"c1", "c2"}

\* Contents with line ends: a line feed, a carriage return and a line feed,
\* a carriage return.
LineTexts == {"lf", "crlf", "cr"}

\* The characters of a content.
Chars(text) ==
    CASE text = "lf" -> <<"a", "LF", "b">>
      [] text = "crlf" -> <<"a", "CR", "LF", "b">>
      [] text = "cr" -> <<"a", "CR", "b">>
      [] OTHER -> <<text>>

\* The content with the given characters.
Text(chars) == CHOOSE text \in Texts \cup LineTexts : Chars(text) = chars

\* os.linesep of the container the Gateway runs in.
linesep == <<"LF">>

\* What a file opened with open(path, 'w') stores for the characters
\* written: each line feed as os.linesep.
RECURSIVE write_newlines(_)
write_newlines(chars) ==
    IF chars = <<>> THEN <<>>
    ELSE (IF Head(chars) = "LF" THEN linesep ELSE <<Head(chars)>>)
             \o write_newlines(Tail(chars))

\* What a file opened with open(path, 'r') gives for the characters stored:
\* a carriage return with a line feed after it, and a carriage return alone,
\* are read as a line feed.
RECURSIVE universal_newlines(_)
universal_newlines(chars) ==
    IF chars = <<>> THEN <<>>
    ELSE IF Head(chars) = "CR"
         THEN <<"LF">> \o universal_newlines(
                  IF Len(chars) >= 2 /\ chars[2] = "LF"
                  THEN SubSeq(chars, 3, Len(chars))
                  ELSE Tail(chars))
    ELSE <<Head(chars)>> \o universal_newlines(Tail(chars))

\* async with aiofiles.open(file_path, 'w', encoding='utf-8') as f:
\*     await f.write(content)
WriteText(content_) == Text(write_newlines(Chars(content_)))

\* async with aiofiles.open(file_path, 'r', encoding='utf-8') as f:
\*     content = await f.read()
ReadText(stored) == Text(universal_newlines(Chars(stored)))

\* The tasks of the Gateway that run upload_file at the same time.
Tasks == {1, 2}

\* Task t runs no call of upload_file.
NoUpload ==
    [at |-> "idle", ctx |-> NoUser, filename |-> <<>>, content |-> NoFile]

NotesIdle ==
    /\ last_upload = [p \in FsPaths |-> NoFile]
    /\ ucall = [t \in Tasks |-> NoUpload]
    /\ ures = [t \in Tasks |-> NoResult]
    /\ index_count = [u \in Users |-> [p \in VaultPaths |-> 0]]

\* Faulty variant of file_path.unlink(): the file stays.
KeepFile(files, path) == files

\* file_path.unlink()
Unlink(files, path) == [files EXCEPT ![path] = NoFile]

RagOutcomes == {"ok", "failed"}

\* DELETE /embed answers 2xx, answers an error status (which modify_file
\* and delete_file do not look at), or cannot be reached.
RagDeleteOutcomes == {"deleted", "refused", "unreachable"}

uploadFrame ==
    <<storeVars, workerVars, ragVars, gatewayVars, fidVars, authVars, diskVars,
      syncVars, ctxVars, gitVars, logVars, idxVars, aheadVars>>

toolFrame == <<uploadFrame, noteVars>>

\* list_files (its argument is ignored)
ListFiles(ctx) ==
    /\ fcall = NoCall
    /\ LET cu == get_current_user(ctx)
       IN  fres' = IF ~cu.ok
                   THEN Ended("list_files", ctx, <<>>, "ValueError")
                   ELSE [Ended("list_files", ctx, <<>>, "ok") EXCEPT
                            !.listed = ListedFiles(cu.user)]
    /\ UNCHANGED <<fs, vec, fcall>>
    /\ UNCHANGED toolFrame

\* search_files; the embedding of the query or the query of the vector DB
\* fails (RuntimeError) or the rows found are returned.
SearchFiles(ctx, rag) ==
    /\ fcall = NoCall
    /\ LET cu == get_current_user(ctx)
       IN  fres' = IF ~cu.ok
                   THEN Ended("search_files", ctx, <<>>, "ValueError")
                   ELSE IF rag = "failed"
                   THEN Ended("search_files", ctx, <<>>, "RuntimeError")
                   ELSE [Ended("search_files", ctx, <<>>, "ok") EXCEPT
                            !.found = query_vectordb_direct(cu.user)]
    /\ UNCHANGED <<fs, vec, fcall>>
    /\ UNCHANGED toolFrame

\* read_file
ReadFile(ctx, filename) ==
    /\ fcall = NoCall
    /\ LET cu == get_current_user(ctx)
           file_path == FilePath(cu.user, filename)
       IN  fres' = IF ~cu.ok
                   THEN Ended("read_file", ctx, filename, "ValueError")
                   ELSE IF ~Exists(file_path)
                   THEN Ended("read_file", ctx, filename, "Error")
                   ELSE [Ended("read_file", ctx, filename, "ok") EXCEPT
                            !.text = ReadText(fs[OsPath(file_path)]),
                            !.path = OsPath(file_path),
                            !.effect = "read"]
    /\ UNCHANGED <<fs, vec, fcall>>
    /\ UNCHANGED toolFrame

\* upload_file up to the request to the RAG service: the file is written
\* unless it exists.
UploadWrite(ctx, filename, content_) ==
    /\ fcall = NoCall
    /\ LET cu == get_current_user(ctx)
           file_path == FilePath(cu.user, filename)
       IN  IF ~cu.ok
           THEN /\ fres' = Ended("upload_file", ctx, filename, "ValueError")
                /\ UNCHANGED <<fs, fcall>>
           ELSE IF Exists(file_path)
           THEN /\ fres' = Ended("upload_file", ctx, filename, "Error")
                /\ UNCHANGED <<fs, fcall>>
           ELSE /\ fs' = [fs EXCEPT ![OsPath(file_path)] = WriteText(content_)]
                /\ fcall' = [tool |-> "upload_file", ctx |-> ctx,
                             filename |-> filename, content |-> content_,
                             old |-> NoFile]
                /\ fres' = NoResult
    /\ UNCHANGED vec
    /\ UNCHANGED toolFrame

\* upload_file from the answer of POST /embed on: a failure unlinks the file
\* and raises RuntimeError; else the Git commit is triggered.
UploadIndexed(rag, git) ==
    /\ fcall.tool = "upload_file"
    /\ LET user_id == fcall.ctx
           file_path == FilePath(user_id, fcall.filename)
           done == [Ended("upload_file", fcall.ctx, fcall.filename, "ok")
                       EXCEPT !.path = OsPath(file_path), !.rag = rag,
                              !.text = fcall.content]
       IN  IF rag = "failed"
           THEN /\ fs' = Unlink(fs, OsPath(file_path))
                /\ fres' = [done EXCEPT !.kind = "RuntimeError"]
                /\ UNCHANGED vec
           ELSE /\ vec' = vec \cup {EmbeddedRow(user_id, fcall.filename)}
                /\ fres' = GitBestEffort([done EXCEPT !.effect = "created"],
                               trigger_git_commit(user_id, file_path, git))
                /\ UNCHANGED fs
    /\ fcall' = NoCall
    /\ UNCHANGED uploadFrame

UploadIndex(rag, git) ==
    /\ UploadIndexed(rag, git)
    /\ UNCHANGED noteVars

\* The same, with the content of a successful upload_file noted.
UploadIndexNoted(rag, git) ==
    /\ UploadIndexed(rag, git)
    /\ last_upload' =
          IF rag = "failed" THEN last_upload
          ELSE [last_upload EXCEPT
                   ![OsPath(FilePath(fcall.ctx, fcall.filename))] = fcall.content]
    /\ UNCHANGED <<ucall, ures, index_count>>

\* upload_file in task t up to its first await (aiofiles.open): without user
\* context it raises, for a file that exists it returns an error.
UploadCheckTask(t, ctx, filename, content_) ==
    /\ ucall[t].at = "idle"
    /\ LET cu == get_current_user(ctx)
           file_path == FilePath(cu.user, filename)
       IN  IF ~cu.ok
           THEN /\ ures' = [ures EXCEPT
                              ![t] = Ended("upload_file", ctx, filename,
                                           "ValueError")]
                /\ UNCHANGED ucall
           ELSE IF Exists(file_path)
           THEN /\ ures' = [ures EXCEPT
                              ![t] = Ended("upload_file", ctx, filename,
                                           "Error")]
                /\ UNCHANGED ucall
           ELSE /\ ucall' = [ucall EXCEPT
                               ![t] = [at |-> "checked", ctx |-> ctx,
                                       filename |-> filename,
                                       content |-> content_]]
                /\ ures' = [ures EXCEPT ![t] = NoResult]
    /\ UNCHANGED <<fs, vec, fcall, fres, last_upload, index_count>>
    /\ UNCHANGED uploadFrame

\* upload_file in task t from aiofiles.open(file_path, 'w') to the request
\* to the RAG service: the file is created or replaced.
UploadWriteTask(t) ==
    /\ ucall[t].at = "checked"
    /\ fs' = [fs EXCEPT ![OsPath(FilePath(ucall[t].ctx, ucall[t].filename))] =
                           WriteText(ucall[t].content)]
    /\ ucall' = [ucall EXCEPT ![t].at = "written"]
    /\ UNCHANGED <<vec, fcall, fres, last_upload, ures, index_count>>
    /\ UNCHANGED uploadFrame

\* upload_file in task t from the answer of POST /embed on: a failure
\* unlinks the file (unlink raises FileNotFoundError when the file is gone)
\* and raises RuntimeError; else the Git commit is triggered.
UploadAnswerTask(t, rag, git) ==
    /\ ucall[t].at = "written"
    /\ LET user_id == ucall[t].ctx
           file_path == FilePath(user_id, ucall[t].filename)
           done == [Ended("upload_file", user_id, ucall[t].filename, "ok")
                       EXCEPT !.path = OsPath(file_path), !.rag = rag,
                              !.text = ucall[t].content]
       IN  IF rag = "failed"
           THEN /\ fs' = Unlink(fs, OsPath(file_path))
                /\ ures' = [ures EXCEPT
                              ![t] = [done EXCEPT
                                        !.kind = IF Exists(file_path)
                                                 THEN "RuntimeError"
                                                 ELSE "FileNotFoundError"]]
                /\ UNCHANGED vec
           ELSE /\ vec' = vec \cup {EmbeddedRow(user_id, ucall[t].filename)}
                /\ ures' = [ures EXCEPT
                              ![t] = GitBestEffort(
                                        [done EXCEPT !.effect = "created"],
                                        trigger_git_commit(user_id, file_path,
                                                           git))]
                /\ UNCHANGED fs
    /\ ucall' = [ucall EXCEPT ![t] = NoUpload]
    /\ UNCHANGED <<fcall, fres, last_upload, index_count>>
    /\ UNCHANGED uploadFrame

\* modify_file up to the requests to the RAG service: the file is
\* overwritten if it exists.
ModifyWrite(ctx, filename, content_) ==
    /\ fcall = NoCall
    /\ LET cu == get_current_user(ctx)
           file_path == FilePath(cu.user, filename)
       IN  IF ~cu.ok
           THEN /\ fres' = Ended("modify_file", ctx, filename, "ValueError")
                /\ UNCHANGED <<fs, fcall>>
           ELSE IF ~Exists(file_path)
           THEN /\ fres' = Ended("modify_file", ctx, filename, "Error")
                /\ UNCHANGED <<fs, fcall>>
           ELSE /\ fs' = [fs EXCEPT ![OsPath(file_path)] = WriteText(content_)]
                /\ fcall' = [tool |-> "modify_file", ctx |-> ctx,
                             filename |-> filename, content |-> content_,
                             old |-> fs[OsPath(file_path)]]
                /\ fres' = NoResult
    /\ UNCHANGED vec
    /\ UNCHANGED toolFrame

\* modify_file from DELETE /embed on: a request that cannot be made or a
\* failed POST /embed raises RuntimeError; else the Git commit is triggered.
ModifyIndex(del, rag, git) ==
    /\ fcall.tool = "modify_file"
    /\ LET user_id == fcall.ctx
           file_path == FilePath(user_id, fcall.filename)
           file_id == GatewayFileId(user_id, fcall.filename)
           kept == IF del = "deleted" THEN WithoutFileId(vec, file_id)
                   ELSE vec
           done == [Ended("modify_file", fcall.ctx, fcall.filename, "ok")
                       EXCEPT !.path = OsPath(file_path),
                              !.effect = "modified",
                              !.old = fcall.old,
                              !.text = fcall.content,
                              !.rag = IF del = "unreachable" THEN "failed"
                                      ELSE rag]
       IN  IF del = "unreachable"
           THEN /\ fres' = [done EXCEPT !.kind = "RuntimeError"]
                /\ UNCHANGED vec
           ELSE IF rag = "failed"
           THEN /\ fres' = [done EXCEPT !.kind = "RuntimeError"]
                /\ vec' = kept
           ELSE /\ vec' = kept \cup {EmbeddedRow(user_id, fcall.filename)}
                /\ fres' = GitBestEffort(done,
                               trigger_git_commit(user_id, file_path, git))
    /\ fcall' = NoCall
    /\ UNCHANGED fs
    /\ UNCHANGED toolFrame

\* delete_file: a failure of DELETE /embed is swallowed, the file is
\* unlinked, the Git commit is triggered for a file under the vault.
DeleteFile(ctx, filename, del, git) ==
    /\ fcall = NoCall
    /\ LET cu == get_current_user(ctx)
           file_path == FilePath(cu.user, filename)
           file_id == GatewayFileId(cu.user, filename)
       IN  IF ~cu.ok
           THEN /\ fres' = Ended("delete_file", ctx, filename, "ValueError")
                /\ UNCHANGED <<fs, vec>>
           ELSE IF ~Exists(file_path)
           THEN /\ fres' = Ended("delete_file", ctx, filename, "Error")
                /\ UNCHANGED <<fs, vec>>
           ELSE /\ vec' = IF del = "deleted" THEN WithoutFileId(vec, file_id)
                          ELSE vec
                /\ fs' = Unlink(fs, OsPath(file_path))
                /\ fres' = GitBestEffort(
                               [Ended("delete_file", ctx, filename, "ok") EXCEPT
                                   !.path = OsPath(file_path),
                                   !.effect = "deleted",
                                   !.old = fs[OsPath(file_path)]],
                               IF IsRelativeTo(file_path, VaultDir(cu.user))
                               THEN trigger_git_commit(cu.user, file_path, git)
                               ELSE "none")
    /\ UNCHANGED fcall
    /\ UNCHANGED toolFrame

\* A sync tool called in context ctx: get_current_user raises ValueError
\* without a user; else the tool runs for that user.
Unauthenticated(tool, ctx) ==
    /\ fres' = Ended(tool, ctx, <<>>, "ValueError")
    /\ UNCHANGED <<fs, vec, fcall>>
    /\ UNCHANGED toolFrame

configure_obsidian_sync(ctx, repo) ==
    LET cu == get_current_user(ctx)
    IN  IF ~cu.ok THEN Unauthenticated("configure_obsidian_sync", ctx)
        ELSE cu.user \in Users /\ Configure(cu.user, repo)

\* get_obsidian_sync_status changes nothing.
get_obsidian_sync_status(ctx) ==
    LET cu == get_current_user(ctx)
    IN  IF ~cu.ok THEN Unauthenticated("get_obsidian_sync_status", ctx)
        ELSE cu.user \in Users /\ UNCHANGED vars

reset_obsidian_sync_failures(ctx) ==
    LET cu == get_current_user(ctx)
    IN  IF ~cu.ok THEN Unauthenticated("reset_obsidian_sync_failures", ctx)
        ELSE cu.user \in Users /\ ResetRead(cu.user)

force_complete_reindex(ctx) ==
    LET cu == get_current_user(ctx)
    IN  IF ~cu.ok THEN Unauthenticated("force_complete_reindex", ctx)
        ELSE cu.user \in Users /\ ForceReindex(cu.user)

\* A file tool has changed a file of u's vault and calls _trigger_git_commit:
\* it returns without a git_config.json, for a stopped sync and without a
\* vault; else the file is staged and committed (committed: both succeed)
\* and the branch pushed (pushed: the push succeeds); every failure is
\* swallowed.  The commit holds the staged file only.
TriggerGitCommit(u, committed, pushed) ==
    /\ tree[u] \in {"clean", "dirty"}
    /\ IF config[u].exists /\ ~config[u].stopped /\ committed
       THEN /\ ahead' = [ahead EXCEPT ![u] = ~pushed]
            /\ UNCHANGED tree
       ELSE /\ tree' = [tree EXCEPT ![u] = "dirty"]
            /\ UNCHANGED ahead
    /\ UNCHANGED <<config, content, mtime, hashes, hashExists>>
    /\ UNCHANGED <<workerVars, ragVars, gatewayVars, fidVars, fileVars, authVars,
                   diskVars, syncVars, ctxVars, gitVars, noteVars, logVars, idxVars>>

----------------------------------------------------------------------------
(* Tool Gateway: OAuth endpoints and middleware *)

\* Authorization codes and access tokens the Gateway generates.
MaxCodes == 2

Codes == 1..MaxCodes
Tokens == 1..MaxCodes

\* A token request without a code; a code and a token the Gateway never
\* generated.
NoCode == 0
ForgedCode == MaxCodes + 1
ForgedToken == MaxCodes + 1

\* The clients that send token requests.
Clients == {"k1", "k2"}

\* The state parameter of an authorize request, as its parts; NoState when
\* the request has none.
NoState == <<>>

AuthStates == {<<u, ":", "srv">> : u \in Users \cup {PlaceholderUser}}

\* state.split(":")[0]
SplitFirst(state) == IF state[1] = ":" THEN "" ELSE state[1]

\* Faulty variant of AUTH_CODES.pop(code): the code stays valid.
KeepCode(codes, code) == codes

\* AUTH_CODES.pop(code)
PopCode(codes, code) == [codes EXCEPT ![code] = NoUser]

\* Faulty variant of the token table's entry: one user id for every token.
StoreFixedUser(user_id) == "alice"

\* TOKENS[access_token] = user_id
StoreUser(user_id) == user_id

\* get_user_from_token: TOKENS.get(token)
get_user_from_token(token) ==
    IF token \in Tokens THEN TOKENS[token] ELSE NoUser

NoTokenRequest == [pc |-> "idle", code |-> NoCode]
NoTokenResponse == [status |-> 0, error |-> "none", access_token |-> NoCode]
NoAuthorizeResponse == [status |-> 0, code |-> NoCode]
NoRequest ==
    [path |-> <<>>, auth |-> <<>>, status |-> 0, www_authenticate |-> "none",
     forwarded |-> FALSE, user_id |-> NoUser]

\* No code exists, no request is in flight.
NoCodes ==
    /\ AUTH_CODES = [c \in Codes |-> NoUser]
    /\ nextCode = 0
    /\ nextToken = 0
    /\ codeState = [c \in Codes |-> NoState]
    /\ tokenState = [t \in Tokens |-> NoState]
    /\ granted = [c \in Codes |-> 0]
    /\ aresp = NoAuthorizeResponse
    /\ treq = [k \in Clients |-> NoTokenRequest]
    /\ tresp = [k \in Clients |-> NoTokenResponse]
    /\ hres = NoRequest

\* No code and no token exists.
AuthIdle ==
    /\ NoCodes
    /\ TOKENS = [t \in Tokens |-> NoUser]

authFrame ==
    <<storeVars, workerVars, ragVars, gatewayVars, fidVars, fileVars, diskVars, syncVars, ctxVars, gitVars, noteVars, logVars, idxVars, aheadVars>>

\* authorize: a request without state is refused; a POST whose form says
\* "approve" stores a new code for the user id of the state; any other
\* request changes nothing (a GET renders the confirmation page).
AuthorizeActions == {"approve", "deny", "get"}

Authorize(state, action) ==
    /\ IF state = NoState
       THEN /\ aresp' = [status |-> 400, code |-> NoCode]
            /\ UNCHANGED <<AUTH_CODES, nextCode, codeState>>
       ELSE IF action = "approve"
       THEN /\ nextCode < MaxCodes
            /\ LET code == nextCode + 1
               IN  /\ AUTH_CODES' = [AUTH_CODES EXCEPT
                                        ![code] = SplitFirst(state)]
                   /\ codeState' = [codeState EXCEPT ![code] = state]
                   /\ nextCode' = code
                   /\ aresp' = [status |-> 302, code |-> code]
       ELSE /\ aresp' = [status |-> IF action = "deny" THEN 400 ELSE 200,
                         code |-> NoCode]
            /\ UNCHANGED <<AUTH_CODES, nextCode, codeState>>
    /\ UNCHANGED <<TOKENS, nextToken, tokenState, granted, treq, tresp, hres>>
    /\ UNCHANGED authFrame

\* token up to the parsed body (it awaits request.json() or request.form(),
\* so other requests run in between).
TokenParse(k, code) ==
    /\ treq[k].pc = "idle"
    /\ treq' = [treq EXCEPT ![k] = [pc |-> "parsed", code |-> code]]
    /\ tresp' = [tresp EXCEPT ![k] = NoTokenResponse]
    /\ UNCHANGED <<AUTH_CODES, TOKENS, nextCode, nextToken, codeState,
                   tokenState, granted, aresp, hres>>
    /\ UNCHANGED authFrame

\* token from the parsed body on (no await): a missing or unknown code is
\* refused; else the code is consumed and a new token is stored.
TokenExchange(k) ==
    /\ treq[k].pc = "parsed"
    /\ LET code == treq[k].code
       IN  IF code = NoCode \/ code \notin Codes \/ AUTH_CODES[code] = NoUser
           THEN /\ tresp' = [tresp EXCEPT ![k] =
                                [status |-> 400, error |-> "invalid_grant",
                                 access_token |-> NoCode]]
                /\ UNCHANGED <<AUTH_CODES, TOKENS, nextToken, tokenState,
                               granted>>
           ELSE /\ nextToken < MaxCodes
                /\ LET access_token == nextToken + 1
                   IN  /\ AUTH_CODES' = PopCode(AUTH_CODES, code)
                       /\ TOKENS' = [TOKENS EXCEPT ![access_token] =
                                        StoreUser(AUTH_CODES[code])]
                       /\ tokenState' = [tokenState EXCEPT
                                            ![access_token] = codeState[code]]
                       /\ nextToken' = access_token
                       /\ granted' = [granted EXCEPT ![code] = @ + 1]
                       /\ tresp' = [tresp EXCEPT ![k] =
                                       [status |-> 200, error |-> "none",
                                        access_token |-> access_token]]
    /\ treq' = [treq EXCEPT ![k] = NoTokenRequest]
    /\ UNCHANGED <<nextCode, codeState, aresp, hres>>
    /\ UNCHANGED authFrame

\* The request paths and Authorization headers explored.
RequestPaths ==
    {<<"mcp">>, <<"mcp", "messages">>, <<"api", "mcp">>, <<"health">>,
     <<"token">>}

NoHeader == <<>>

AuthHeaders ==
    {NoHeader, <<"Basic", ForgedToken>>}
        \cup {<<"Bearer", t>> : t \in Tokens \cup {ForgedToken}}

\* The user id dispatch extracts from the Authorization header.
HeaderUser(auth) ==
    IF auth # NoHeader /\ auth[1] = "Bearer"
    THEN get_user_from_token(auth[2])
    ELSE NoUser

\* user_id and not (user_id.startswith("{{") and user_id.endswith("}}"))
ValidUser(user_id) == user_id \notin {NoUser, "", PlaceholderUser}

\* request.url.path == "/mcp" or request.url.path.endswith("/mcp")
EndsWithMcp(path) == path[Len(path)] = "mcp"

\* SetUserIdFromHeaderMiddleware.dispatch for a request without sync
\* headers: a valid user is set as the context and the request forwarded;
\* without one the paths that end with /mcp are answered 401, the others
\* forwarded without a context.
Dispatch(path, auth) ==
    /\ LET user_id == HeaderUser(auth)
           seen == [NoRequest EXCEPT !.path = path, !.auth = auth]
       IN  hres' = IF ValidUser(user_id)
                   THEN [seen EXCEPT !.forwarded = TRUE, !.user_id = user_id]
                   ELSE IF EndsWithMcp(path)
                   THEN [seen EXCEPT !.status = 401,
                                     !.www_authenticate = "Bearer"]
                   ELSE [seen EXCEPT !.forwarded = TRUE]
    /\ UNCHANGED <<AUTH_CODES, TOKENS, nextCode, nextToken, codeState,
                   tokenState, granted, aresp, treq, tresp>>
    /\ UNCHANGED authFrame

----------------------------------------------------------------------------
(* sync_hashes.json on disk *)

\* The file does not exist (no text of a file is this one).
Absent == <<"absent">>

\* A dict as Python keeps it: the (key, value) pairs in insertion order.
RECURSIVE DictPut(_, _, _)
DictPut(d, key, value) ==
    IF d = <<>> THEN <<<<key, value>>>>
    ELSE IF Head(d)[1] = key THEN <<<<key, value>>>> \o Tail(d)
    ELSE <<Head(d)>> \o DictPut(Tail(d), key, value)

\* json.dump(hashes, f): the chunks it writes to the file, one after the
\* other: the opening brace, one chunk per entry (key and value), the
\* closing brace.
LBrace == <<"{">>
RBrace == <<"}">>
JsonChunks(d) == <<LBrace>> \o d \o <<RBrace>>

\* json.load(f) succeeds: the text is a complete JSON object.
WellFormed(text) ==
    /\ text # Absent
    /\ Len(text) >= 2
    /\ text[1] = LBrace
    /\ text[Len(text)] = RBrace
    /\ \A i \in 2..(Len(text) - 1) : Len(text[i]) = 2

\* json.load(f) of a well-formed text
JsonLoad(text) == SubSeq(text, 2, Len(text) - 1)

Digests == {"h1", "h2"}

HashIdle ==
    /\ hmem = <<>>
    /\ hwritten = 0
    /\ hpc = "idle"
    /\ hseen = "none"

hashFrame ==
    <<storeVars, workerVars, ragVars, gatewayVars, fidVars, fileVars, authVars,
      cfgVars, syncVars, ctxVars, gitVars, noteVars, logVars, idxVars, aheadVars>>

\* open(hash_db_path, 'w'): the file is created or truncated.
OpenTruncates(text) == <<>>

\* _update_hash up to the second open: the dict is read from the file if it
\* exists and the file's hash is set in it; an exception of json.load is
\* logged and ends the call.
UpdateHashLoad(file_path, digest) ==
    /\ hpc = "idle"
    /\ IF hash_db # Absent /\ ~WellFormed(hash_db)
       THEN UNCHANGED <<hmem, hpc>>
       ELSE /\ hmem' = DictPut(IF hash_db = Absent THEN <<>>
                                ELSE JsonLoad(hash_db),
                               file_path, digest)
            /\ hpc' = "open"
    /\ hseen' = IF hash_db = Absent THEN "empty"
                ELSE IF WellFormed(hash_db) THEN "dict" ELSE "JSONDecodeError"
    /\ UNCHANGED <<hash_db, hwritten>>
    /\ UNCHANGED hashFrame

\* with open(hash_db_path, 'w') as f
UpdateHashOpen ==
    /\ hpc = "open"
    /\ hash_db' = OpenTruncates(hash_db)
    /\ hwritten' = 0
    /\ hpc' = "dump"
    /\ UNCHANGED <<hmem, hseen>>
    /\ UNCHANGED hashFrame

\* json.dump(hashes, f) writes its next chunk to the open file, and the
\* file is closed after the last: a file that was unlinked in between is
\* written to but stays absent.
UpdateHashDump ==
    /\ hpc = "dump"
    /\ hwritten' = hwritten + 1
    /\ hash_db' = IF hash_db = Absent THEN Absent
                  ELSE SubSeq(JsonChunks(hmem), 1, hwritten + 1)
    /\ IF hwritten + 1 = Len(JsonChunks(hmem))
       THEN hpc' = "idle" /\ hmem' = <<>>
       ELSE UNCHANGED <<hpc, hmem>>
    /\ UNCHANGED hseen
    /\ UNCHANGED hashFrame

\* The Worker process is killed inside _update_hash and started again: the
\* file stays as it is.
WorkerCrash ==
    /\ hpc # "idle"
    /\ hpc' = "idle"
    /\ hmem' = <<>>
    /\ hwritten' = 0
    /\ UNCHANGED <<hash_db, hseen>>
    /\ UNCHANGED hashFrame

\* _has_changed reads the file: an exception of json.load makes it answer
\* True.
HasChangedLoad ==
    /\ hpc = "idle"
    /\ hseen' = IF hash_db = Absent THEN "empty"
                ELSE IF WellFormed(hash_db) THEN "dict" ELSE "JSONDecodeError"
    /\ UNCHANGED <<hash_db, hmem, hwritten, hpc>>
    /\ UNCHANGED hashFrame

\* force_complete_reindex of the Gateway: the file is unlinked if it exists.
UnlinkHashes ==
    /\ hash_db # Absent
    /\ hash_db' = Absent
    /\ UNCHANGED <<hmem, hwritten, hpc, hseen>>
    /\ UNCHANGED hashFrame

----------------------------------------------------------------------------
(* git_config.json on disk *)

\* The keys of the config dict that are modelled, in the order of the dict.
CfgFields ==
    <<"repo_url", "token", "branch", "auto_configured", "failure_count",
      "stopped",
      "last_success", "last_failure", "last_failure_error">>

\* The keys that are popped from the dict or not set in it.
OptionalFields == {"last_success", "last_failure", "last_failure_error"}

\* json.dump(config, f) / json.dumps(config): the opening brace, one chunk
\* per key the dict holds, the closing brace.
RECURSIVE CfgEntries(_, _)
CfgEntries(c, fields) ==
    IF fields = <<>> THEN <<>>
    ELSE IF Head(fields) \in OptionalFields /\ c[Head(fields)] = "absent"
    THEN CfgEntries(c, Tail(fields))
    ELSE <<<<Head(fields), c[Head(fields)]>>>> \o CfgEntries(c, Tail(fields))

CfgChunks(c) == JsonChunks(CfgEntries(c, CfgFields))

\* json.load of a well-formed text: the dict, a key that is not in the
\* text is absent.
CfgParse(text) ==
    [f \in DOMAIN NoConfig |->
        IF f = "exists" THEN TRUE
        ELSE IF \E i \in 2..(Len(text) - 1) : text[i][1] = f
        THEN text[CHOOSE i \in 2..(Len(text) - 1) : text[i][1] = f][2]
        ELSE "absent"]

\* write(2) of text at offset 0 of a file that holds old.
Overwrite(old, text) == text \o SubSeq(old, Len(text) + 1, Len(old))

\* The writers of git_config.json: _update_sync_status of the Worker,
\* configure_obsidian_sync and reset_obsidian_sync_failures of the Gateway.
Writers == {"status", "configure", "reset"}

\* The writes of git_config.json that are begun.
MaxWrites == 3

ConfigIdle ==
    /\ cfg_tmp = Absent
    /\ cpc = [w \in Writers |-> "idle"]
    /\ cbuf = [w \in Writers |-> <<>>]
    /\ cfd = [w \in Writers |-> "none"]
    /\ cwritten = {cfg_file}
    /\ cstarted = 0

DiskIdle ==
    /\ hash_db = Absent
    /\ HashIdle
    /\ cfg_file = Absent
    /\ ConfigIdle

cfgFrame ==
    <<storeVars, workerVars, ragVars, gatewayVars, fidVars, fileVars, authVars,
      hashVars, syncVars, ctxVars, gitVars, noteVars, logVars, idxVars, aheadVars>>

\* The writer goes on to open the temporary file with the text.
CfgPrepared(w, text) ==
    /\ cstarted' = cstarted + 1
    /\ cpc' = [cpc EXCEPT ![w] = "open"]
    /\ cbuf' = [cbuf EXCEPT ![w] = text]

\* _update_sync_status up to the open of the temporary file: nothing without
\* a config; the config is read and updated; an exception of json.load is
\* logged.
StatusBegin(result) ==
    /\ cpc["status"] = "idle"
    /\ cstarted < MaxWrites
    /\ IF cfg_file = Absent \/ ~WellFormed(cfg_file)
       THEN UNCHANGED <<cpc, cbuf, cstarted>>
       ELSE /\ ~CfgParse(cfg_file).stopped
            /\ CfgPrepared("status",
                           CfgChunks(UpdatedStatus(CfgParse(cfg_file), result)))
    /\ UNCHANGED <<cfg_file, cfg_tmp, cfd, cwritten>>
    /\ UNCHANGED cfgFrame

\* configure_obsidian_sync with valid arguments up to the open of the
\* temporary file.
ConfigureBegin(repo) ==
    /\ cpc["configure"] = "idle"
    /\ cstarted < MaxWrites
    /\ CfgPrepared("configure", CfgChunks(NewConfig(repo)))
    /\ UNCHANGED <<cfg_file, cfg_tmp, cfd, cwritten>>
    /\ UNCHANGED cfgFrame

\* reset_obsidian_sync_failures up to the open of the temporary file:
\* nothing without a config; an exception of json.loads is raised as
\* RuntimeError.
ResetBegin ==
    /\ cpc["reset"] = "idle"
    /\ cstarted < MaxWrites
    /\ IF cfg_file = Absent \/ ~WellFormed(cfg_file)
       THEN UNCHANGED <<cpc, cbuf, cstarted>>
       ELSE CfgPrepared("reset", CfgChunks(ResetConfig(CfgParse(cfg_file))))
    /\ UNCHANGED <<cfg_file, cfg_tmp, cfd, cwritten>>
    /\ UNCHANGED cfgFrame

\* open(temp_path, 'w'): git_config.json.tmp is created, or truncated if it
\* exists; every writer uses this one name.
CfgOpen(w) ==
    /\ cpc[w] = "open"
    /\ cfg_tmp' = <<>>
    /\ cfd' = [cfd EXCEPT ![w] = "tmp"]
    /\ cpc' = [cpc EXCEPT ![w] = "write"]
    /\ UNCHANGED <<cfg_file, cbuf, cwritten, cstarted>>
    /\ UNCHANGED cfgFrame

\* The end of the with block: the buffered text is written at offset 0 of
\* the file the descriptor is on, whatever its name is by now, and the
\* descriptor is closed.
CfgWrite(w) ==
    /\ cpc[w] = "write"
    /\ cfg_tmp' = IF cfd[w] = "tmp" THEN Overwrite(cfg_tmp, cbuf[w])
                  ELSE cfg_tmp
    /\ cfg_file' = IF cfd[w] = "cfg" THEN Overwrite(cfg_file, cbuf[w])
                   ELSE cfg_file
    /\ cfd' = [cfd EXCEPT ![w] = "none"]
    /\ cpc' = [cpc EXCEPT ![w] = "replace"]
    /\ cwritten' = cwritten \cup {cbuf[w]}
    /\ UNCHANGED <<cbuf, cstarted>>
    /\ UNCHANGED cfgFrame

\* temp_path.replace(config_path): the temporary file takes the name
\* git_config.json, and the descriptors open on it stay on it; the file that
\* had the name is gone.  Without a temporary file FileNotFoundError ends
\* the call.
CfgReplace(w) ==
    /\ cpc[w] = "replace"
    /\ IF cfg_tmp = Absent
       THEN UNCHANGED <<cfg_file, cfg_tmp, cfd>>
       ELSE /\ cfg_file' = cfg_tmp
            /\ cfg_tmp' = Absent
            /\ cfd' = [x \in Writers |->
                          IF cfd[x] = "tmp" THEN "cfg"
                          ELSE IF cfd[x] = "cfg" THEN "gone"
                          ELSE cfd[x]]
    /\ cpc' = [cpc EXCEPT ![w] = "idle"]
    /\ cbuf' = [cbuf EXCEPT ![w] = <<>>]
    /\ UNCHANGED <<cwritten, cstarted>>
    /\ UNCHANGED cfgFrame

----------------------------------------------------------------------------
(* Tool Gateway: the arguments and results of the sync tools *)

\* The values of the arguments repo_url, token and branch: absent (None or
\* the empty string), a value, an unreplaced placeholder of LibreChat, and
\* values with only one end of a placeholder.
NoArg == ""
RepoArgs == {NoArg, "r1", "{{OBSIDIAN_REPO_URL}}", "{{r2"}
TokenArgs == {NoArg, "tok", "{{OBSIDIAN_TOKEN}}"}
BranchArgs == {"main", "{{OBSIDIAN_BRANCH}}", "dev}}"}

\* value.startswith("{{")
StartsWithBraces(value) ==
    value \in {"{{OBSIDIAN_REPO_URL}}", "{{OBSIDIAN_TOKEN}}",
               "{{OBSIDIAN_BRANCH}}", "{{r2"}

\* value.endswith("}}")
EndsWithBraces(value) ==
    value \in {"{{OBSIDIAN_REPO_URL}}", "{{OBSIDIAN_TOKEN}}",
               "{{OBSIDIAN_BRANCH}}", "dev}}"}

is_placeholder(value) == StartsWithBraces(value) /\ EndsWithBraces(value)

\* Faulty variant of the validation: the branch is not looked at.
PlaceholderButBranch(repo_url, token, branch) ==
    is_placeholder(repo_url) \/ is_placeholder(token)

\* is_placeholder(repo_url) or is_placeholder(token) or is_placeholder(branch)
AnyPlaceholder(repo_url, token, branch) ==
    is_placeholder(repo_url) \/ is_placeholder(token) \/ is_placeholder(branch)

\* The calls of the sync tools that are counted.
MaxCalls == 3

NoSyncResult ==
    [n |-> 0, tool |-> "none", user |-> NoUser, kind |-> "none",
     repo_url |-> NoArg, token |-> NoArg, branch |-> NoArg]

SyncIdle == sres = NoSyncResult

\* The n-th call, of tool by user with the arguments, has ended: kind is "ok"
\* (the config was written), "status" (the status description or a message
\* is returned) or the exception raised.
SyncEnded(tool, user, kind, repo_url, token, branch) ==
    [n |-> sres.n + 1, tool |-> tool, user |-> user, kind |-> kind,
     repo_url |-> repo_url, token |-> token, branch |-> branch]

\* configure_obsidian_sync(repo_url, token, branch) of user u.
ConfigureCall(u, repo_url, token, branch) ==
    /\ sres.n < MaxCalls
    /\ IF repo_url = NoArg \/ token = NoArg
       THEN /\ sres' = SyncEnded("configure", u, "status",
                                 repo_url, token, branch)
            /\ UNCHANGED <<config, resumed>>
       ELSE IF AnyPlaceholder(repo_url, token, branch)
       THEN /\ sres' = SyncEnded("configure", u, "ValueError",
                                 repo_url, token, branch)
            /\ UNCHANGED <<config, resumed>>
       ELSE /\ config' = [config EXCEPT
                             ![u] = NewConfigAt(repo_url, token, branch)]
            /\ resumed' = [resumed EXCEPT ![u] = "no"]
            /\ sres' = SyncEnded("configure", u, "ok", repo_url, token, branch)
    /\ UNCHANGED <<fidVars, fileVars, authVars, diskVars, ctxVars, gitVars, noteVars, logVars, idxVars, aheadVars>>
    /\ UNCHANGED <<tree, content, mtime, hashes, hashExists, workerVars, ragVars,
                   rreq, reindexed>>

\* reset_obsidian_sync_failures of user u up to json.loads: without a
\* git_config.json it returns "Nothing to reset".
ResetCall(u) ==
    /\ sres.n < MaxCalls
    /\ ~rreq[u].exists
    /\ sres' = SyncEnded("reset", u, IF config[u].exists THEN "read"
                                     ELSE "status", NoArg, NoArg, NoArg)
    /\ rreq' = [rreq EXCEPT ![u] = IF config[u].exists THEN config[u]
                                   ELSE NoConfig]
    /\ UNCHANGED <<fidVars, fileVars, authVars, diskVars, ctxVars, gitVars, noteVars, logVars, idxVars, aheadVars>>
    /\ UNCHANGED <<storeVars, workerVars, ragVars, resumed, reindexed>>

----------------------------------------------------------------------------
(* Tool Gateway: the middleware with the sync headers *)

\* The values of the headers X-Obsidian-Repo-URL, X-Obsidian-Token and
\* X-Obsidian-Branch; without the branch header the branch is "main".
RepoHeaders == {NoArg, "r1", "{{OBSIDIAN_REPO_URL}}"}
TokenHeaders == {NoArg, "tok", "{{OBSIDIAN_TOKEN}}"}
BranchHeaders == {"main", "dev", "{{OBSIDIAN_BRANCH}}"}

\* clear_obsidian_headers: the three context variables are None.
ClearedHeaders == <<NoArg, NoArg, NoArg>>

ContextIdle ==
    /\ ctx_user = NoUser
    /\ ctx_headers = ClearedHeaders
    /\ cexit = "none"

\* Faulty variant of auto_configure: the config is written by every call.
AutoConfiguredAlways(c, repo_url, token, branch) ==
    IF AnyPlaceholder(repo_url, token, branch)
    THEN [kind |-> "ValidationError", config |-> c]
    ELSE [kind |-> "written",
          config |-> [NewConfigAt(repo_url, token, branch)
                         EXCEPT !.auto_configured = TRUE]]

\* auto_configure(user, repo_url, token, branch) on the config c of the
\* user: a placeholder in any of the three is a ValidationError; a config
\* that names the same repo_url and branch is not rewritten; else the
\* config is written, marked auto_configured, with the failure state reset.
AutoConfigured(c, repo_url, token, branch) ==
    IF AnyPlaceholder(repo_url, token, branch)
    THEN [kind |-> "ValidationError", config |-> c]
    ELSE IF c.exists /\ c.repo_url = repo_url /\ c.branch = branch
    THEN [kind |-> "skipped", config |-> c]
    ELSE [kind |-> "written",
          config |-> [NewConfigAt(repo_url, token, branch)
                         EXCEPT !.auto_configured = TRUE]]

\* The requests of valid users that are counted.
MaxRequests == 2

\* How await call_next(request) ends.
NextOutcomes == {"response", "exception"}

\* SetUserIdFromHeaderMiddleware.dispatch.  With a valid user the user id
\* and the sync headers are set in the context, and auto_configure is called
\* when repo_url and token are present and no placeholders (its exceptions
\* are logged); without one the user id is set to None and the paths that
\* end with /mcp are answered 401.  The request is forwarded, and after the
\* response the user id and the headers are cleared; an exception of
\* call_next leaves dispatch before that.
DispatchHeaders(path, auth, repo_url, token, branch, outcome) ==
    LET user_id == HeaderUser(auth)
        seen == [NoRequest EXCEPT !.path = path, !.auth = auth]
    IN  /\ IF ValidUser(user_id)
           THEN /\ sres.n < MaxRequests
                /\ user_id \in Users
                /\ hres' = [seen EXCEPT !.forwarded = TRUE,
                                        !.user_id = user_id]
                /\ LET called == /\ repo_url # NoArg
                                 /\ token # NoArg
                                 /\ ~is_placeholder(repo_url)
                                 /\ ~is_placeholder(token)
                       auto == AutoConfigured(config[user_id], repo_url,
                                              token, branch)
                   IN  /\ config' = IF called
                                    THEN [config EXCEPT ![user_id] = auto.config]
                                    ELSE config
                       /\ sres' = SyncEnded("auto_configure", user_id,
                                            IF called THEN auto.kind
                                            ELSE "not called",
                                            repo_url, token, branch)
                /\ cexit' = outcome
                /\ ctx_user' = IF outcome = "response" THEN NoUser
                               ELSE user_id
                /\ ctx_headers' = IF outcome = "response" THEN ClearedHeaders
                                  ELSE <<repo_url, token, branch>>
           ELSE /\ hres' = IF EndsWithMcp(path)
                           THEN [seen EXCEPT !.status = 401,
                                             !.www_authenticate = "Bearer"]
                           ELSE [seen EXCEPT !.forwarded = TRUE]
                /\ cexit' = IF EndsWithMcp(path) THEN "401" ELSE outcome
                /\ ctx_user' = NoUser
                /\ ctx_headers' = ClearedHeaders
                /\ UNCHANGED <<config, sres>>
        /\ UNCHANGED <<AUTH_CODES, TOKENS, nextCode, nextToken, codeState,
                       tokenState, granted, aresp, treq, tresp>>
        /\ UNCHANGED <<tree, content, mtime, hashes, hashExists, workerVars,
                       ragVars, gatewayVars, fidVars, fileVars, diskVars,
                       gitVars, noteVars, logVars, idxVars, aheadVars>>

----------------------------------------------------------------------------
(* The remote URL of the vault *)

\* A URL is the sequence of its parts; "://", ":", "@" and "/" are parts of
\* their own.  The URLs a user configures: http or https, without
\* credentials, with a token or with user:password, and with an "@" in the
\* path or without.
UserInfos == {<<>>, <<"tok", "@">>, <<"user", ":", "pass", "@">>}
UrlPaths == {<<"/", "repo">>, <<"/", "repo", "@", "v1">>}
RepoUrls ==
    {<<scheme, "://">> \o userinfo \o <<"github.com">> \o path :
        scheme \in {"http", "https"}, userinfo \in UserInfos,
        path \in UrlPaths}

NoRemote == <<>>

\* The first part from position i on that is "@" or "/", or 0.
RECURSIVE FirstStop(_, _)
FirstStop(url, i) ==
    IF i > Len(url) THEN 0
    ELSE IF url[i] \in {"@", "/"} THEN i
    ELSE FirstStop(url, i + 1)

\* Faulty variant of clean_remote_url: only a token without a password is
\* removed.
CleanTokenOnly(url) ==
    IF /\ Len(url) >= 4
       /\ url[1] \in {"http", "https"}
       /\ url[2] = "://"
       /\ url[4] = "@"
    THEN <<url[1], url[2]>> \o SubSeq(url, 5, Len(url))
    ELSE url

\* re.sub(r'^(https?://)[^@/]+@', r'\1', url): after http:// or https://,
\* one or more characters other than "@" and "/" and the "@" that follows
\* them are removed.
clean_remote_url(url) ==
    IF url = <<>> THEN url
    ELSE LET stop == FirstStop(url, 3)
         IN  IF /\ Len(url) >= 2
                /\ url[1] \in {"http", "https"}
                /\ url[2] = "://"
                /\ stop > 3
                /\ url[stop] = "@"
             THEN <<url[1], url[2]>> \o SubSeq(url, stop + 1, Len(url))
             ELSE url

GitIdle ==
    /\ cfg_repo_url = <<>>
    /\ vault_exists = FALSE
    /\ origin_url = NoRemote
    /\ gstep = "none"

gitFrame ==
    <<storeVars, workerVars, ragVars, gatewayVars, fidVars, fileVars, authVars,
      diskVars, syncVars, ctxVars, noteVars, logVars, idxVars, aheadVars>>

\* configure_obsidian_sync writes the repo_url as it is given.
ConfigureUrl(url) ==
    /\ cfg_repo_url' = url
    /\ gstep' = "configure"
    /\ UNCHANGED <<vault_exists, origin_url>>
    /\ UNCHANGED gitFrame

\* GitSync._ensure_repo: without a vault directory the directory is made and
\* the clean URL cloned into it; else origin is set to the clean URL, or
\* created with it.  A failed clone raises.
EnsureRepoUrl(cloned) ==
    /\ LET clean_url == clean_remote_url(cfg_repo_url)
       IN  IF ~vault_exists
           THEN /\ vault_exists' = TRUE
                /\ origin_url' = IF cloned THEN clean_url ELSE NoRemote
                /\ gstep' = IF cloned THEN "ensure" ELSE "clone failed"
           ELSE /\ origin_url' = clean_url
                /\ gstep' = "ensure"
                /\ UNCHANGED vault_exists
    /\ UNCHANGED cfg_repo_url
    /\ UNCHANGED gitFrame

\* _trigger_git_commit for a changed file of the vault, from the commit on:
\* origin is set to the clean URL, or created with it, and the branch pushed.
TriggerPush ==
    /\ vault_exists
    /\ origin_url' = clean_remote_url(cfg_repo_url)
    /\ gstep' = "push"
    /\ UNCHANGED <<cfg_repo_url, vault_exists>>
    /\ UNCHANGED gitFrame

----------------------------------------------------------------------------
(* Specifications *)

\* The Worker at the start of run, no request in flight.
InitControl ==
    /\ cycle = 0
    /\ visited = {}
    /\ skipped_count = 0
    /\ wuser = NoUser
    /\ wpc = "idle"
    /\ wres = "ok"
    /\ wcfg = NoConfig
    /\ wchanged = <<>>
    /\ wplan = <<>>
    /\ widx = 0
    /\ posts = [u \in Users |-> 0]
    /\ uploaded = [u \in Users |-> {}]
    /\ ragErr = [u \in Users |-> FALSE]
    /\ rreq = [u \in Users |-> NoConfig]
    /\ resumed = [u \in Users |-> "no"]
    /\ reindexed = [u \in Users |-> "no"]

\* No file_id has been computed.
NoId == <<>>

FidIdle ==
    /\ fidUser = NoUser
    /\ fidName = <<>>
    /\ fidTool = "none"
    /\ fidGateway = NoId
    /\ fidWorker = NoId

\* No file exists under the storage root, the vector DB is empty, no file
\* tool is called.
NoFiles == [p \in FsPaths |-> NoFile]

FilesIdle ==
    /\ fs = NoFiles
    /\ vec = {}
    /\ fcall = NoCall
    /\ fres = NoResult

\* A vault with no file and no sync_hashes.json.
EmptyVault == [p \in VaultPaths |-> NoFile]
NoHashes == [p \in VaultPaths |-> NoHash]
NoMtimes == [p \in VaultPaths |-> 0]

\* The circuit breaker: no user is configured yet, the vaults hold no note;
\* the Worker cycles while the sync users call configure and reset_failures.
Init ==
    /\ InitControl
    /\ DiskIdle
    /\ SyncIdle
    /\ ContextIdle
    /\ GitIdle
    /\ NotesIdle
    /\ LogIdle
    /\ IndexCallIdle
    /\ AheadIdle
    /\ FidIdle
    /\ FilesIdle
    /\ AuthIdle
    /\ config = [u \in Users |-> NoConfig]
    /\ tree \in [Users -> {"none", "clean", "dirty"}]
    /\ content = [u \in Users |-> EmptyVault]
    /\ mtime = [u \in Users |-> NoMtimes]
    /\ hashes = [u \in Users |-> NoHashes]
    /\ hashExists = [u \in Users |-> FALSE]

Next ==
    \/ \E u \in Users : Visit(u, MaxCycles)
    \/ Construct
    \/ \E ok \in BOOLEAN : EnsureRepo(ok)
    \/ \E ok \in BOOLEAN : Pull(ok)
    \/ IndexScan
    \/ \E committed, pushed \in BOOLEAN : Push(committed, pushed)
    \/ StatusRead
    \/ StatusWrite
    \/ EndCycle
    \/ \E u \in SyncUsers, repo \in Repos : Configure(u, repo)
    \/ \E u \in SyncUsers : ResetRead(u)
    \/ \E u \in SyncUsers : ResetWrite(u)

Spec == Init /\ [][Next]_vars

\* A failing remote: every user is configured, every clone and pull fails,
\* no tool is called.
InitFail ==
    /\ InitControl
    /\ DiskIdle
    /\ SyncIdle
    /\ ContextIdle
    /\ GitIdle
    /\ NotesIdle
    /\ LogIdle
    /\ IndexCallIdle
    /\ AheadIdle
    /\ FidIdle
    /\ FilesIdle
    /\ AuthIdle
    /\ config \in [Users -> {NewConfig(repo) : repo \in Repos}]
    /\ tree \in [Users -> {"none", "clean", "dirty"}]
    /\ content = [u \in Users |-> EmptyVault]
    /\ mtime = [u \in Users |-> NoMtimes]
    /\ hashes = [u \in Users |-> NoHashes]
    /\ hashExists = [u \in Users |-> FALSE]

NextFail ==
    \/ \E u \in Users : Visit(u, MaxCycles)
    \/ Construct
    \/ EnsureRepo(FALSE)
    \/ Pull(FALSE)
    \/ StatusRead
    \/ StatusWrite
    \/ EndCycle

SpecFail == InitFail /\ [][NextFail]_vars

\* The scheduler with a remote that fails or stalls: every user is
\* configured; a clone or a pull fails or succeeds, a pull may never return.
\* The Worker's loop runs on as long as a step of it is possible.
NextHang ==
    \/ \E u \in Users : Visit(u, MaxCycles)
    \/ Construct
    \/ \E ok \in BOOLEAN : EnsureRepo(ok)
    \/ \E ok \in BOOLEAN : Pull(ok)
    \/ PullHangs
    \/ IndexScan
    \/ \E committed, pushed \in BOOLEAN : Push(committed, pushed)
    \/ StatusRead
    \/ StatusWrite
    \/ EndCycle

SpecHang == InitFail /\ [][NextHang]_vars /\ WF_vars(NextHang)

\* Gateway edits and the Worker: every user is configured; the file tools
\* change files of a user's vault while the Worker does not sync that user,
\* their commits and pushes succeed or fail; the Worker cycles.
NextReconcile ==
    \/ \E u \in Users : Visit(u, MaxIndexCycles)
    \/ Construct
    \/ \E ok \in BOOLEAN : EnsureRepo(ok)
    \/ \E ok \in BOOLEAN : Pull(ok)
    \/ IndexScan
    \/ \E committed, pushed \in BOOLEAN : Push(committed, pushed)
    \/ StatusRead
    \/ StatusWrite
    \/ EndCycle
    \/ \E u \in Users, committed, pushed \in BOOLEAN :
          wuser # u /\ TriggerGitCommit(u, committed, pushed)

SpecReconcile == InitFail /\ [][NextReconcile]_vars

\* An indexed vault: the notes exist with distinct mtimes; each has no entry,
\* an entry of an older content or its current entry in sync_hashes.json.
IndexedVault ==
    [p \in VaultPaths |-> "v2"]

\* The mtimes of the notes: distinct, in the order of the names rotated.
Mtimes(k) ==
    [p \in VaultPaths |->
        IF p \in NotePaths
        THEN LET i == CHOOSE j \in 1..NFiles : p = <<"notes", FileNames[j]>>
             IN  ((i + k) % NFiles) + 1
        ELSE NFiles]

DistinctMtimes == {Mtimes(k) : k \in 1..NFiles}

HashStates ==
    {h \in [VaultPaths -> {NoHash, "h1", "h2"}] :
        \A p \in VaultPaths \ NotePaths : h[p] = NoHash}

InitIndex ==
    /\ InitControl
    /\ DiskIdle
    /\ SyncIdle
    /\ ContextIdle
    /\ GitIdle
    /\ NotesIdle
    /\ LogIdle
    /\ IndexCallIdle
    /\ AheadIdle
    /\ FidIdle
    /\ FilesIdle
    /\ AuthIdle
    /\ config = [u \in Users |->
                    IF u \in SyncUsers THEN NewConfig("r1") ELSE NoConfig]
    /\ tree \in [Users -> {"clean", "dirty"}]
    /\ \A u \in Users \ SyncUsers : tree[u] = "clean"
    /\ content = [u \in Users |->
                     IF u \in SyncUsers THEN IndexedVault ELSE EmptyVault]
    /\ mtime \in [Users -> DistinctMtimes \cup {NoMtimes}]
    /\ \A u \in Users : mtime[u] = NoMtimes <=> u \notin SyncUsers
    /\ hashes \in [Users -> HashStates]
    /\ \A u \in Users \ SyncUsers : hashes[u] = NoHashes
    /\ hashExists \in [Users -> BOOLEAN]
    /\ \A u \in Users :
          hashExists[u] = FALSE => hashes[u] = NoHashes
    /\ \A u \in Users \ SyncUsers : hashExists[u] = FALSE

NextIndex ==
    \/ \E u \in Users : Visit(u, MaxIndexCycles)
    \/ Construct
    \/ \E ok \in BOOLEAN : EnsureRepo(ok)
    \/ \E ok \in BOOLEAN : Pull(ok)
    \/ IndexScan
    \/ \E out \in IndexOutcomes : IndexFile(out)
    \/ \E committed, pushed \in BOOLEAN : Push(committed, pushed)
    \/ StatusRead
    \/ StatusWrite
    \/ EndCycle

SpecIndex == InitIndex /\ [][NextIndex]_vars

\* The indexing while the remote and the RAG service answer: the sync of
\* alice has failed up to MAX_FAILURES - 1 times in a row before; no file
\* is edited, every pull and every request to the RAG service succeeds, the
\* commit and the push of a dirty tree succeed or fail.
InitProgress ==
    /\ InitControl
    /\ DiskIdle
    /\ SyncIdle
    /\ ContextIdle
    /\ GitIdle
    /\ NotesIdle
    /\ LogIdle
    /\ IndexCallIdle
    /\ AheadIdle
    /\ FidIdle
    /\ FilesIdle
    /\ AuthIdle
    /\ \E k \in {0, MAX_FAILURES - 1} :
          config = [u \in Users |->
                       IF u \notin SyncUsers THEN NoConfig
                       ELSE IF k = 0 THEN NewConfig("r1")
                       ELSE [UpdateFailure(NewConfig("r1")) EXCEPT
                                !.failure_count = k]]
    /\ tree \in [Users -> {"clean", "dirty"}]
    /\ \A u \in Users \ SyncUsers : tree[u] = "clean"
    /\ content = [u \in Users |->
                     IF u \in SyncUsers THEN IndexedVault ELSE EmptyVault]
    /\ mtime \in [Users -> DistinctMtimes \cup {NoMtimes}]
    /\ \A u \in Users : mtime[u] = NoMtimes <=> u \notin SyncUsers
    /\ hashes \in [Users -> HashStates]
    /\ \A u \in Users \ SyncUsers : hashes[u] = NoHashes
    /\ hashExists \in [Users -> BOOLEAN]
    /\ \A u \in Users :
          hashExists[u] = FALSE => hashes[u] = NoHashes
    /\ \A u \in Users \ SyncUsers : hashExists[u] = FALSE

NextProgress ==
    \/ \E u \in Users : Visit(u, MaxIndexCycles)
    \/ Construct
    \/ \E ok \in BOOLEAN : EnsureRepo(ok)
    \/ Pull(TRUE)
    \/ IndexScan
    \/ IndexFileCounted(IndexSucceeds)
    \/ \E committed, pushed \in BOOLEAN : Push(committed, pushed)
    \/ StatusRead
    \/ StatusWrite
    \/ EndCycle

SpecProgress == InitProgress /\ [][NextProgress]_vars

\* The steps of a sync: the sync user's vault holds its notes, a note in a
\* hidden directory and a note with a hidden name; the remote lets a pull
\* or a push succeed at once, after some failed attempts, or never.
MaxGitAttempts == 4

\* The remote fails the first k attempts of an operation.
Outage(k) == [i \in 1..MaxGitAttempts |-> i > k]

GitAnswers == {Outage(k) : k \in 0..MaxGitAttempts}

NextSteps ==
    \/ \E u \in Users : Visit(u, MaxIndexCycles)
    \/ Construct
    \/ \E ok \in BOOLEAN : EnsureRepo(ok)
    \/ \E answers \in GitAnswers : PullAnswered(answers)
    \/ IndexScan
    \/ \E out \in IndexOutcomes : IndexFile(out)
    \/ \E committed \in BOOLEAN, answers \in GitAnswers :
          PushAnswered(committed, answers)
    \/ StatusRead
    \/ StatusWrite
    \/ EndCycle

SpecSteps == InitIndex /\ [][NextSteps]_vars

\* The same with force_reindex called at any time.
NextReindex ==
    \/ NextIndex
    \/ \E u \in SyncUsers : ForceReindex(u)

SpecReindex == InitIndex /\ [][NextReindex]_vars

\* The file_id of one vault file of one user, as the Gateway's file tools
\* and the Worker compute it.
InitFileId ==
    /\ InitControl
    /\ DiskIdle
    /\ SyncIdle
    /\ ContextIdle
    /\ GitIdle
    /\ NotesIdle
    /\ LogIdle
    /\ IndexCallIdle
    /\ AheadIdle
    /\ FilesIdle
    /\ AuthIdle
    /\ fidUser \in Users
    /\ fidName \in FidNames
    /\ fidTool = "none"
    /\ fidGateway = NoId
    /\ fidWorker = NoId
    /\ config = [u \in Users |-> NoConfig]
    /\ tree = [u \in Users |-> "clean"]
    /\ content = [u \in Users |-> EmptyVault]
    /\ mtime = [u \in Users |-> NoMtimes]
    /\ hashes = [u \in Users |-> NoHashes]
    /\ hashExists = [u \in Users |-> FALSE]

NextFileId ==
    \/ \E tool \in FileTools, filename \in GatewayFilenames :
          GatewayTouch(tool, filename)
    \/ WorkerIndexId

SpecFileId == InitFileId /\ [][NextFileId]_vars

\* No sync is configured and no vault is checked out.
NoSync ==
    /\ config = [u \in Users |-> NoConfig]
    /\ tree = [u \in Users |-> "clean"]
    /\ content = [u \in Users |-> EmptyVault]
    /\ mtime = [u \in Users |-> NoMtimes]
    /\ hashes = [u \in Users |-> NoHashes]
    /\ hashExists = [u \in Users |-> FALSE]

\* The rows the vector DB may hold: of a note and of hidden files, stored
\* by the file tools (with and without a filename in the metadata), by the
\* Worker (without one) and by another client (custom_id without the
\* "user_<user_id>_" prefix, no filename).
SearchRows ==
    {EmbeddedRow("alice", <<"obsidian_vault">> \o NotePath),
     EmbeddedRow("alice", <<"obsidian_vault">> \o HiddenPath),
     EmbeddedRow("bob", <<"obsidian_vault">> \o NotePath),
     VecRecord(GatewayFileId("alice", <<"obsidian_vault">> \o DotFilePath),
               "alice", NoFilename, VaultDir("alice") \o DotFilePath),
     VecRecord(WorkerFileId("alice", VaultDir("alice") \o HiddenPath),
               "alice", NoFilename, VaultDir("alice") \o HiddenPath),
     VecRecord(PathStr(HiddenPath),
               "alice", NoFilename, VaultDir("alice") \o HiddenPath)}

\* Listing and search: any of the files exists, the vector DB holds any of
\* the rows; the users list and search.
InitSearch ==
    /\ InitControl
    /\ DiskIdle
    /\ SyncIdle
    /\ ContextIdle
    /\ GitIdle
    /\ NotesIdle
    /\ LogIdle
    /\ IndexCallIdle
    /\ AheadIdle
    /\ FidIdle
    /\ AuthIdle
    /\ NoSync
    /\ fs \in [FsPaths -> {NoFile, "c1"}]
    /\ fs[SENSITIVE] = "c1"
    /\ vec \in SUBSET SearchRows
    /\ fcall = NoCall
    /\ fres = NoResult

NextSearch ==
    \/ \E ctx \in Contexts : ListFiles(ctx)
    \/ \E ctx \in Contexts, rag \in RagOutcomes : SearchFiles(ctx, rag)

SpecSearch == InitSearch /\ [][NextSearch]_vars

\* The filenames the callers of the file tools pass: the note of the
\* caller's vault, a file above the caller's directory, and the note of
\* alice's vault by a path through the parent directory.
ToolFilenames ==
    {<<"obsidian_vault">> \o NotePath,
     <<"..", "sensitive.txt">>,
     <<"..", "alice", "obsidian_vault">> \o NotePath}

\* The callers of the file tools: bob, and a request without user context.
FileCallers == {"bob", NoUser}

\* The file tools: every user's sync is configured, each vault holds its
\* note or not; bob calls the file tools, one call at a time.
InitFiles ==
    /\ InitControl
    /\ DiskIdle
    /\ SyncIdle
    /\ ContextIdle
    /\ GitIdle
    /\ NotesIdle
    /\ LogIdle
    /\ IndexCallIdle
    /\ AheadIdle
    /\ FidIdle
    /\ AuthIdle
    /\ config = [u \in Users |-> NewConfig("r1")]
    /\ tree = [u \in Users |-> "clean"]
    /\ content = [u \in Users |-> EmptyVault]
    /\ mtime = [u \in Users |-> NoMtimes]
    /\ hashes = [u \in Users |-> NoHashes]
    /\ hashExists = [u \in Users |-> FALSE]
    /\ fs \in [FsPaths -> {NoFile, "c1"}]
    /\ fs[SENSITIVE] = "c1"
    /\ \A u \in Users :
          /\ fs[VaultDir(u) \o HiddenPath] = NoFile
          /\ fs[VaultDir(u) \o DotFilePath] = NoFile
    /\ vec = {}
    /\ fcall = NoCall
    /\ fres = NoResult

NextFiles ==
    \/ \E ctx \in FileCallers, filename \in ToolFilenames :
          ReadFile(ctx, filename)
    \/ \E ctx \in FileCallers, filename \in ToolFilenames, text \in Texts :
          UploadWrite(ctx, filename, text)
    \/ \E rag \in RagOutcomes, git \in GitOutcomes : UploadIndex(rag, git)
    \/ \E ctx \in FileCallers, filename \in ToolFilenames, text \in Texts :
          ModifyWrite(ctx, filename, text)
    \/ \E del \in RagDeleteOutcomes, rag \in RagOutcomes, git \in GitOutcomes :
          ModifyIndex(del, rag, git)
    \/ \E ctx \in FileCallers, filename \in ToolFilenames,
          del \in RagDeleteOutcomes, git \in GitOutcomes :
          DeleteFile(ctx, filename, del, git)

SpecFiles == InitFiles /\ [][NextFiles]_vars

\* The tools with and without user context: bob and requests without
\* context call the file tools, for the note of the caller's vault, and the
\* sync tools.
OwnFilenames == {<<"obsidian_vault">> \o NotePath}

NextContext ==
    \/ \E ctx \in FileCallers : ListFiles(ctx)
    \/ \E ctx \in FileCallers, rag \in RagOutcomes : SearchFiles(ctx, rag)
    \/ \E ctx \in FileCallers, filename \in OwnFilenames :
          ReadFile(ctx, filename)
    \/ \E ctx \in FileCallers, filename \in OwnFilenames, text \in Texts :
          UploadWrite(ctx, filename, text)
    \/ \E rag \in RagOutcomes, git \in GitOutcomes : UploadIndex(rag, git)
    \/ \E ctx \in FileCallers, filename \in OwnFilenames, text \in Texts :
          ModifyWrite(ctx, filename, text)
    \/ \E del \in RagDeleteOutcomes, rag \in RagOutcomes, git \in GitOutcomes :
          ModifyIndex(del, rag, git)
    \/ \E ctx \in FileCallers, filename \in OwnFilenames,
          del \in RagDeleteOutcomes, git \in GitOutcomes :
          DeleteFile(ctx, filename, del, git)
    \/ \E ctx \in FileCallers, repo \in Repos : configure_obsidian_sync(ctx, repo)
    \/ \E ctx \in FileCallers : get_obsidian_sync_status(ctx)
    \/ \E ctx \in FileCallers : reset_obsidian_sync_failures(ctx)
    \/ \E u \in Users : ResetWrite(u)
    \/ \E ctx \in FileCallers : force_complete_reindex(ctx)

SpecContext == InitFiles /\ [][NextContext]_vars

\* upload_file and read_file: bob uploads contents with and without line
\* ends, reads and deletes files, one call at a time; the RAG service
\* answers or fails.
NextRoundTrip ==
    \/ \E ctx \in FileCallers, filename \in OwnFilenames :
          ReadFile(ctx, filename)
    \/ \E ctx \in FileCallers, filename \in OwnFilenames,
          text \in Texts \cup LineTexts :
          UploadWrite(ctx, filename, text)
    \/ \E rag \in RagOutcomes, git \in GitOutcomes :
          UploadIndexNoted(rag, git)
    \/ \E ctx \in FileCallers, filename \in OwnFilenames,
          del \in RagDeleteOutcomes, git \in GitOutcomes :
          DeleteFile(ctx, filename, del, git)

SpecRoundTrip == InitFiles /\ [][NextRoundTrip]_vars

\* upload_file in two tasks of the Gateway: the requests of one event loop
\* interleave at their awaits, and upload_file takes no lock.
NextUploads ==
    \/ \E t \in Tasks, ctx \in FileCallers, filename \in OwnFilenames,
          text \in Texts :
          UploadCheckTask(t, ctx, filename, text)
    \/ \E t \in Tasks : UploadWriteTask(t)
    \/ \E t \in Tasks, rag \in RagOutcomes, git \in GitOutcomes :
          UploadAnswerTask(t, rag, git)

SpecUploads == InitFiles /\ [][NextUploads]_vars

\* The Worker's cycles over all users while bob calls the tools that write
\* his vault: the Gateway and the Worker are separate processes on the same
\* storage, and neither GitSync.sync nor the tools take a lock.
NextShared ==
    \/ \E u \in Users : Visit(u, MaxIndexCycles)
    \/ Construct
    \/ \E ok \in BOOLEAN : EnsureRepo(ok)
    \/ \E ok \in BOOLEAN : Pull(ok)
    \/ IndexScan
    \/ \E committed, pushed \in BOOLEAN : Push(committed, pushed)
    \/ StatusRead
    \/ StatusWrite
    \/ EndCycle
    \/ \E filename \in OwnFilenames, text \in Texts :
          UploadWrite("bob", filename, text)
    \/ \E rag \in RagOutcomes, git \in GitOutcomes : UploadIndex(rag, git)
    \/ \E filename \in OwnFilenames, text \in Texts :
          ModifyWrite("bob", filename, text)
    \/ \E del \in RagDeleteOutcomes, rag \in RagOutcomes, git \in GitOutcomes :
          ModifyIndex(del, rag, git)
    \/ \E filename \in OwnFilenames, del \in RagDeleteOutcomes,
          git \in GitOutcomes :
          DeleteFile("bob", filename, del, git)

SpecShared == InitFiles /\ [][NextShared]_vars

\* sync_hashes.json of one user: the Worker updates the hashes of the notes
\* and reads them, it may be killed at any point, and the Gateway's
\* force_complete_reindex unlinks the file at any time.
HashDicts ==
    {<<>>} \cup {<<<<p, h>>>> : p \in NotePaths, h \in Digests}

InitHashFile ==
    /\ InitControl
    /\ FidIdle
    /\ FilesIdle
    /\ AuthIdle
    /\ NoSync
    /\ hash_db \in {Absent} \cup {JsonChunks(d) : d \in HashDicts}
    /\ HashIdle
    /\ cfg_file = Absent
    /\ ConfigIdle
    /\ SyncIdle
    /\ ContextIdle
    /\ GitIdle
    /\ NotesIdle
    /\ LogIdle
    /\ IndexCallIdle
    /\ AheadIdle

NextHashFile ==
    \/ \E p \in NotePaths, h \in Digests : UpdateHashLoad(p, h)
    \/ UpdateHashOpen
    \/ UpdateHashDump
    \/ WorkerCrash
    \/ HasChangedLoad
    \/ UnlinkHashes

SpecHashFile == InitHashFile /\ [][NextHashFile]_vars

\* git_config.json of one user: the Worker's status updates and the
\* Gateway's configure and reset_failures, each step of one at any time.
InitConfigFile ==
    /\ InitControl
    /\ FidIdle
    /\ FilesIdle
    /\ AuthIdle
    /\ NoSync
    /\ hash_db = Absent
    /\ HashIdle
    /\ cfg_file \in {Absent} \cup {CfgChunks(NewConfig(repo)) : repo \in Repos}
    /\ ConfigIdle
    /\ SyncIdle
    /\ ContextIdle
    /\ GitIdle
    /\ NotesIdle
    /\ LogIdle
    /\ IndexCallIdle
    /\ AheadIdle

NextConfigFile ==
    \/ \E result \in {"ok", "failed"} : StatusBegin(result)
    \/ \E repo \in Repos : ConfigureBegin(repo)
    \/ ResetBegin
    \/ \E w \in Writers : CfgOpen(w)
    \/ \E w \in Writers : CfgWrite(w)
    \/ \E w \in Writers : CfgReplace(w)

SpecConfigFile == InitConfigFile /\ [][NextConfigFile]_vars

\* The sync tools alone: the config of a sync user is absent, fresh, failed
\* after a success, or stopped; the user calls configure with any arguments
\* and reset_failures.
RECURSIVE FailTimes(_, _)
FailTimes(c, n) == IF n = 0 THEN c ELSE FailTimes(UpdateFailure(c), n - 1)

SyncConfigs ==
    {NoConfig, NewConfig("r1"),
     FailTimes(UpdateSuccess(NewConfigAt("r2", "tok", "dev")), 1),
     FailTimes(NewConfig("r1"), MAX_FAILURES)}

InitSyncTools ==
    /\ InitControl
    /\ DiskIdle
    /\ SyncIdle
    /\ ContextIdle
    /\ GitIdle
    /\ NotesIdle
    /\ LogIdle
    /\ IndexCallIdle
    /\ AheadIdle
    /\ FidIdle
    /\ FilesIdle
    /\ AuthIdle
    /\ config \in [Users -> SyncConfigs]
    /\ \A u \in Users \ SyncUsers : config[u] = NoConfig
    /\ tree = [u \in Users |-> "clean"]
    /\ content = [u \in Users |-> EmptyVault]
    /\ mtime = [u \in Users |-> NoMtimes]
    /\ hashes = [u \in Users |-> NoHashes]
    /\ hashExists = [u \in Users |-> FALSE]

NextSyncTools ==
    \/ \E u \in SyncUsers, repo_url \in RepoArgs, token \in TokenArgs,
          branch \in BranchArgs : ConfigureCall(u, repo_url, token, branch)
    \/ \E u \in SyncUsers : ResetCall(u)
    \/ \E u \in SyncUsers : ResetWrite(u)

SpecSyncTools == InitSyncTools /\ [][NextSyncTools]_vars

\* The middleware with the sync headers: token 1 is alice's and every other
\* token is of an unreplaced placeholder; alice's config is absent, fresh,
\* failed or stopped; requests arrive with any headers.
HeaderPaths == {<<"mcp">>, <<"health">>}
HeaderAuths == {NoHeader, <<"Bearer", 1>>, <<"Bearer", 2>>}

InitHeaders ==
    /\ InitControl
    /\ DiskIdle
    /\ SyncIdle
    /\ ContextIdle
    /\ GitIdle
    /\ NotesIdle
    /\ LogIdle
    /\ IndexCallIdle
    /\ AheadIdle
    /\ FidIdle
    /\ FilesIdle
    /\ NoCodes
    /\ TOKENS = [t \in Tokens |-> IF t = 1 THEN "alice" ELSE PlaceholderUser]
    /\ config \in [Users -> SyncConfigs]
    /\ \A u \in Users \ SyncUsers : config[u] = NoConfig
    /\ tree = [u \in Users |-> "clean"]
    /\ content = [u \in Users |-> EmptyVault]
    /\ mtime = [u \in Users |-> NoMtimes]
    /\ hashes = [u \in Users |-> NoHashes]
    /\ hashExists = [u \in Users |-> FALSE]

NextHeaders ==
    \/ \E path \in HeaderPaths, auth \in HeaderAuths, repo_url \in RepoHeaders,
          token \in TokenHeaders, branch \in BranchHeaders,
          outcome \in NextOutcomes :
          DispatchHeaders(path, auth, repo_url, token, branch, outcome)

SpecHeaders == InitHeaders /\ [][NextHeaders]_vars

\* The remote URL of one user's vault: any of the URLs is configured; the
\* vault does not exist, or exists with any of the URLs as its origin or
\* without one; the Worker ensures the checkout, the Gateway pushes, the
\* user configures another URL.
InitRemote ==
    /\ InitControl
    /\ DiskIdle
    /\ SyncIdle
    /\ ContextIdle
    /\ FidIdle
    /\ FilesIdle
    /\ AuthIdle
    /\ NoSync
    /\ NotesIdle
    /\ LogIdle
    /\ IndexCallIdle
    /\ AheadIdle
    /\ cfg_repo_url \in RepoUrls
    /\ vault_exists \in BOOLEAN
    /\ origin_url \in RepoUrls \cup {NoRemote}
    /\ ~vault_exists => origin_url = NoRemote
    /\ gstep = "none"

NextRemote ==
    \/ \E url \in RepoUrls : ConfigureUrl(url)
    \/ \E cloned \in BOOLEAN : EnsureRepoUrl(cloned)
    \/ TriggerPush

SpecRemote == InitRemote /\ [][NextRemote]_vars

\* One call of index_file under every behaviour of the RAG service.
InitIndexCall ==
    /\ InitControl
    /\ DiskIdle
    /\ SyncIdle
    /\ ContextIdle
    /\ GitIdle
    /\ NotesIdle
    /\ LogIdle
    /\ AheadIdle
    /\ FidIdle
    /\ FilesIdle
    /\ AuthIdle
    /\ NoSync
    /\ irun \in Runs
    /\ ires = NoTrace

NextIndexCall == IndexFileCall

SpecIndexCall == InitIndexCall /\ [][NextIndexCall]_vars

\* The OAuth endpoints: users authorize, clients exchange codes for tokens.
InitAuth ==
    /\ InitControl
    /\ DiskIdle
    /\ SyncIdle
    /\ ContextIdle
    /\ GitIdle
    /\ NotesIdle
    /\ LogIdle
    /\ IndexCallIdle
    /\ AheadIdle
    /\ FidIdle
    /\ FilesIdle
    /\ AuthIdle
    /\ NoSync

NextAuth ==
    \/ \E state \in AuthStates \cup {NoState}, action \in AuthorizeActions :
          Authorize(state, action)
    \/ \E k \in Clients, code \in Codes \cup {NoCode, ForgedCode} :
          TokenParse(k, code)
    \/ \E k \in Clients : TokenExchange(k)

SpecAuth == InitAuth /\ [][NextAuth]_vars

\* The middleware: the token table holds any tokens; requests arrive with
\* any of the paths and headers.
InitMcp ==
    /\ InitControl
    /\ DiskIdle
    /\ SyncIdle
    /\ ContextIdle
    /\ GitIdle
    /\ NotesIdle
    /\ LogIdle
    /\ IndexCallIdle
    /\ AheadIdle
    /\ FidIdle
    /\ FilesIdle
    /\ NoCodes
    /\ TOKENS \in [Tokens -> Users \cup {NoUser, PlaceholderUser}]
    /\ NoSync

NextMcp ==
    \/ \E path \in RequestPaths, auth \in AuthHeaders : Dispatch(path, auth)

SpecMcp == InitMcp /\ [][NextMcp]_vars

----------------------------------------------------------------------------
(* The circuit breaker (Spec, SpecFail) *)

\* The step is the write of _update_sync_status for u after a sync that
\* raised nothing / that raised.
StatusWriteStep(u) == wpc = "status_write" /\ wpc' = "idle" /\ wuser = u
SuccessWrite(u) == StatusWriteStep(u) /\ wres = "ok"
FailureWrite(u) == StatusWriteStep(u) /\ wres # "ok"

\* The step is the write of reset_failures / of configure for u.
ResetStep(u) == rreq[u].exists /\ ~rreq'[u].exists
ConfigureStep(u) ==
    /\ UNCHANGED <<rreq, wpc>>
    /\ \E repo \in Repos : config'[u] = NewConfig(repo)

\* The failure state of a config is cleared.
FailureCleared(c) ==
    /\ c.failure_count = 0
    /\ c.last_failure = "absent"
    /\ c.last_failure_error = "absent"

\* The state of a config after a success.
Healthy(c) ==
    /\ c.failure_count = 0
    /\ ~c.stopped
    /\ c.last_success # "absent"

\* C1: in every reachable state, under every interleaving of Worker cycles,
\* configure and reset_failures, a stopped config has failure_count >= 5.
C1_StoppedImpliesMaxFailures ==
    \A u \in Users : config[u].stopped => config[u].failure_count >= MAX_FAILURES

\* A user the breaker has stopped.
C1_Witness ==
    \E u \in Users : config[u].stopped /\ config[u].failure_count = MAX_FAILURES

\* C2: with no tool call in between, the status update of a sync that raised
\* adds exactly one to failure_count and sets stopped exactly when the new
\* count is at least 5 (the user was not stopped); so with a failing remote
\* the counts are the number of cycles run up to the fifth, when every user
\* is stopped with failure_count = 5, and stay so.
C2_FailureStep ==
    \A u \in Users :
        FailureWrite(u) =>
            /\ config'[u].failure_count = config[u].failure_count + 1
            /\ config'[u].stopped = (config'[u].failure_count >= MAX_FAILURES)

C2_CountsCycles ==
    (WorkerIdle /\ visited = {}) =>
        \A u \in Users :
            /\ config[u].failure_count =
                  IF cycle < MAX_FAILURES THEN cycle ELSE MAX_FAILURES
            /\ config[u].stopped = (cycle >= MAX_FAILURES)

C2_FailureIncrements == [][C2_FailureStep]_vars /\ []C2_CountsCycles

\* Five cycles of the failing remote have run.
C2_Witness ==
    /\ cycle = MAX_FAILURES
    /\ \A u \in Users :
          config[u].failure_count = MAX_FAILURES /\ config[u].stopped

\* C3: the Worker never syncs a stopped user (every Git, RAG and hash step
\* of the Worker is a step of the user it syncs), and the iteration of a
\* cycle over a stopped user constructs no GitSync and leaves the config,
\* the vault, the hash index and the RAG service as they are.
C3_SkipStep ==
    \A u \in Users :
        (WorkerIdle /\ u \notin visited /\ u \in visited' /\ config[u].stopped) =>
            /\ wpc' = "idle" /\ wuser' = NoUser
            /\ skipped_count' = skipped_count + 1
            /\ UNCHANGED <<storeVars, ragVars>>

C3_NotSyncingStopped ==
    \A u \in Users : wuser = u => config[u].exists /\ ~config[u].stopped

C3_StoppedSkipped == [][C3_SkipStep]_vars /\ []C3_NotSyncingStopped

\* A cycle has skipped a stopped user.
C3_Witness ==
    /\ skipped_count > 0
    /\ \E u \in visited : config[u].stopped

\* C4, as stated: when reset_failures has re-opened a stopped user and the
\* pull of the cycle that follows succeeds, the cycle's status update
\* leaves failure_count = 0, stopped = false and last_success populated.
C4_PullSucceeded == wres \in {"ok", "push_failed"}

C4_PullStep ==
    \A u \in Users :
        (StatusWriteStep(u) /\ resumed[u] = "reset" /\ C4_PullSucceeded) =>
            Healthy(config'[u])

C4_AfterSuccessfulPull == [][C4_PullStep]_vars

\* C4, amended: the status update of a sync that raised nothing (its pull
\* and, for a dirty tree, its commit and push succeeded) leaves
\* failure_count = 0, stopped = false and last_success populated; so does
\* the cycle after reset_failures on a stopped user when its sync succeeds.
C4_SuccessStep ==
    \A u \in Users : SuccessWrite(u) => Healthy(config'[u])

C4_AfterSuccessfulSync == [][C4_SuccessStep]_vars

\* A user the breaker stopped, reset_failures re-opened and the next cycle
\* synced.
C4_Witness ==
    \E u \in Users :
        /\ resumed[u] = "cycled" /\ wres = "ok" /\ WorkerIdle
        /\ Healthy(config[u])

\* C5, as stated: stopped goes from true to false only in the status update
\* of a successful sync or in reset_failures.
C5_OnlySyncOrResetStep ==
    \A u \in Users :
        (config[u].stopped /\ ~config'[u].stopped) =>
            SuccessWrite(u) \/ ResetStep(u)

C5_OnlySyncOrReset == [][C5_OnlySyncOrResetStep]_vars

\* C5, amended: stopped goes from true to false only in the status update of
\* a successful sync, in reset_failures, or in configure, which writes a
\* fresh config.
C5_ReopenStep ==
    \A u \in Users :
        (config[u].stopped /\ ~config'[u].stopped) =>
            SuccessWrite(u) \/ ResetStep(u) \/ ConfigureStep(u)

C5_OnlySyncResetOrConfigure == [][C5_ReopenStep]_vars

\* A stopped user has been re-opened by reset_failures.
C5_Witness ==
    \E u \in Users : resumed[u] = "reset" /\ ~config[u].stopped

\* C6: the status update of a successful sync and reset_failures both leave
\* failure_count = 0 and neither last_failure nor last_failure_error.
C6_ClearStep ==
    \A u \in Users :
        (SuccessWrite(u) \/ ResetStep(u)) => FailureCleared(config'[u])

C6_BothClearFailureState == [][C6_ClearStep]_vars

\* A config that a successful sync has written with last_failure_error left.
C6_Witness ==
    \E u \in Users :
        /\ config[u].last_success # "absent"
        /\ config[u].failure_count = 0
        /\ config[u].last_failure = "absent"
        /\ config[u].last_failure_error # "absent"

----------------------------------------------------------------------------
(* Indexing (SpecIndex, SpecReindex) *)

\* The step is one iteration of the indexing loop, of the file wplan[widx].
IndexStep == wpc = "indexing" /\ widx' = widx + 1

\* The entry of p in u's sync_hashes.json is the hash of p's content.
HashRecorded(u, p) == hashes[u][p] = Md5(content[u][p])

\* C7: an iteration of the indexing loop changes the file's entry in
\* sync_hashes.json only when the file's POST /embed was answered 2xx; a
\* file whose indexing failed keeps its entry.
C7_HashStep ==
    IndexStep =>
        LET p == wplan[widx]
        IN  p \notin uploaded'[wuser] =>
                /\ hashes'[wuser][p] = hashes[wuser][p]
                /\ hashExists'[wuser] = hashExists[wuser]

C7_HashOnlyOnSuccess == [][C7_HashStep]_vars

\* A file of this cycle's plan that was not uploaded and whose current hash
\* is recorded: the next cycle does not index it.
C7_Witness ==
    /\ wpc = "push"
    /\ \E i \in 1..Len(wplan) :
          /\ wplan[i] \notin uploaded[wuser]
          /\ HashRecorded(wuser, wplan[i])

\* The changed candidates of the running scan, and those with the
\* MAX_FILES_PER_CYCLE largest mtimes.
C8_Changed == {wchanged[i] : i \in 1..Len(wchanged)}

C8_Newest ==
    {p \in C8_Changed :
        Cardinality({q \in C8_Changed : mtime[wuser][q] > mtime[wuser][p]})
            < MAX_FILES_PER_CYCLE}

\* Of the changed candidates, exactly the newest have their hash recorded.
C8_NewestRecorded ==
    \A p \in C8_Changed : HashRecorded(wuser, p) <=> p \in C8_Newest

\* C8, as stated: when the scan found more than MAX_FILES_PER_CYCLE changed
\* candidates, after the indexing step exactly those with the largest
\* mtimes have their hash recorded and the RAG service has received
\* exactly MAX_FILES_PER_CYCLE POST /embed calls.
C8_ThrottleExactPosts ==
    (wpc = "push" /\ Len(wchanged) > MAX_FILES_PER_CYCLE) =>
        /\ C8_NewestRecorded
        /\ posts[wuser] = MAX_FILES_PER_CYCLE

\* C8, amended: when the scan found more than MAX_FILES_PER_CYCLE changed
\* candidates, after the indexing step exactly those with the largest
\* mtimes have their hash recorded; when no request to the RAG service
\* failed, it has received exactly MAX_FILES_PER_CYCLE POST /embed calls,
\* those of these files.
C8_LifoThrottle ==
    (wpc = "push" /\ Len(wchanged) > MAX_FILES_PER_CYCLE) =>
        /\ C8_NewestRecorded
        /\ ~ragErr[wuser] =>
              /\ posts[wuser] = MAX_FILES_PER_CYCLE
              /\ uploaded[wuser] = C8_Newest

\* A throttled cycle with a healthy RAG service, after its indexing step.
C8_Witness ==
    /\ wpc = "push"
    /\ Len(wchanged) > MAX_FILES_PER_CYCLE
    /\ ~ragErr[wuser]
    /\ posts[wuser] = MAX_FILES_PER_CYCLE
    /\ Cardinality(C8_Newest) = MAX_FILES_PER_CYCLE
    /\ C8_NewestRecorded

\* C9: in the cycle that follows a successful force_reindex, when no
\* request to the RAG service fails, after the indexing step every
\* non-excluded markdown file of the vault has been uploaded.
C9_ReindexUploadsAll ==
    (wpc = "push" /\ reindexed[wuser] = "running" /\ ~ragErr[wuser]) =>
        MdFiles(wuser) \subseteq uploaded[wuser]

\* The cycle after a force_reindex has uploaded MAX_FILES_PER_CYCLE files
\* and left a markdown file out.
C9_Witness ==
    /\ wpc = "push"
    /\ reindexed[wuser] = "running"
    /\ ~ragErr[wuser]
    /\ Cardinality(uploaded[wuser]) = MAX_FILES_PER_CYCLE
    /\ \E p \in MdFiles(wuser) : p \notin uploaded[wuser]

----------------------------------------------------------------------------
(* file_id (SpecFileId) *)

\* C10: once a file tool of the Gateway has touched a vault file and the
\* Worker has indexed it, the two have computed the same file_id.
C10_SameFileId ==
    (fidGateway # NoId /\ fidWorker # NoId) => fidGateway = fidWorker

\* Both components have computed a file_id for the file, and the two differ.
C10_Witness ==
    /\ fidGateway # NoId
    /\ fidWorker # NoId
    /\ fidGateway # fidWorker

----------------------------------------------------------------------------
(* Exclusion of hidden paths *)

\* Some segment of the vault-relative path p starts with a dot.
HasDotSegment(p) == \E i \in 1..Len(p) : p[i] \in {".obsidian", ".draft.md"}

\* C11: a vault file with a path segment that starts with '.' is never in
\* the files a Worker cycle indexes (so no POST /embed is issued for it),
\* is never uploaded and never gets an entry in sync_hashes.json.
C11_HiddenNeverIndexed ==
    \A u \in Users : \A p \in VaultPaths :
        HasDotSegment(p) =>
            /\ hashes[u][p] = NoHash
            /\ p \notin uploaded[u]
            /\ \A i \in 1..Len(wplan) : wuser = u => wplan[i] # p

\* A cycle has indexed notes of a vault that holds a note in a hidden
\* directory and a note with a hidden name.
C11_Witness ==
    /\ wpc = "push"
    /\ uploaded[wuser] # {}
    /\ content[wuser][HiddenPath] # NoFile
    /\ content[wuser][DotFilePath] # NoFile
    /\ hashes[wuser][HiddenPath] = NoHash
    /\ hashes[wuser][DotFilePath] = NoHash

----------------------------------------------------------------------------
(* Listing and search (SpecSearch) *)

\* C12: no file with a path segment that starts with '.' is in the output
\* of list_files, and no row of such a file is in the results of
\* search_files, whatever rows the vector DB holds for the caller.
C12_HiddenNeverListedOrFound ==
    /\ \A f \in fres.listed : ~HasDotSegment(f)
    /\ \A r \in fres.found : ~HasDotSegment(r.content)

\* list_files never lists such a file.
C12_HiddenNeverListed ==
    \A f \in fres.listed : ~HasDotSegment(f)

\* A search has returned the row of a file in a hidden directory, under the
\* filename "unknown".
C12_Witness ==
    /\ fres.tool = "search_files"
    /\ \E r \in fres.found :
          /\ HasDotSegment(r.content)
          /\ r.filename = UnknownFilename

----------------------------------------------------------------------------
(* The file tools (SpecFiles) *)

\* The call that has ended read, created, changed or deleted a file.
Touched == fres.path # <<>>

\* C13: the file a vault tool reads, creates, changes or deletes is a
\* descendant of the caller's vault; a name that resolves outside it makes
\* the tool return an error string.
C13_StaysInVault ==
    Touched => IsRelativeTo(fres.path, VaultDir(fres.ctx))

\* read_file has returned the content of a file above the caller's
\* directory.
C13_Witness ==
    /\ fres.kind = "ok"
    /\ fres.tool = "read_file"
    /\ fres.filename = <<"..", "sensitive.txt">>
    /\ fres.path = SENSITIVE
    /\ fres.text = "c1"

\* C14: no tool call of a user reads, creates, changes or deletes a file
\* under another user's directory.
C14_UserIsolation ==
    \A u \in Users :
        (Touched /\ fres.ctx # u) => ~IsRelativeTo(fres.path, UserDir(u))

\* bob's delete_file has deleted the note of alice's vault.
C14_Witness ==
    /\ fres.kind = "ok"
    /\ fres.tool = "delete_file"
    /\ fres.ctx = "bob"
    /\ fres.path = VaultDir("alice") \o NotePath
    /\ fs[VaultDir("alice") \o NotePath] = NoFile

\* C19: when the RAG indexing of upload_file fails, the call raises
\* RuntimeError, the file it wrote does not exist after the call and no
\* Git commit was attempted.
C19_UploadRolledBack ==
    (fres.tool = "upload_file" /\ fres.rag = "failed") =>
        /\ fres.kind = "RuntimeError"
        /\ fs[fres.path] = NoFile
        /\ fres.git = "none"

\* An upload_file of the note of bob's vault, whose sync is configured, has
\* failed in the RAG indexing.
C19_Witness ==
    /\ fres.tool = "upload_file"
    /\ fres.rag = "failed"
    /\ fres.kind = "RuntimeError"
    /\ fres.path = VaultDir("bob") \o NotePath
    /\ config["bob"].exists

\* C20: when the RAG reindex of modify_file fails, the call raises
\* RuntimeError and the file's content is what it was before the call.
C20_ModifyRolledBack ==
    (fres.tool = "modify_file" /\ fres.rag = "failed") =>
        /\ fres.kind = "RuntimeError"
        /\ fs[fres.path] = fres.old

\* A modify_file has failed in the RAG reindex and the file holds the new
\* content.
C20_Witness ==
    /\ fres.tool = "modify_file"
    /\ fres.rag = "failed"
    /\ fres.kind = "RuntimeError"
    /\ fres.old = "c1"
    /\ fs[fres.path] = "c2"

\* C21: when the Git commit or push of upload_file, modify_file or
\* delete_file fails, the tool returns its success result and the file
\* change it made is kept.
C21_GitBestEffort ==
    fres.git = "failed" =>
        /\ fres.kind = "ok"
        /\ fs[fres.path] = IF fres.tool = "delete_file" THEN NoFile
                           ELSE fres.text

\* The Git step of a modify_file has failed; the file holds the new
\* content.
C21_Witness ==
    /\ fres.git = "failed"
    /\ fres.tool = "modify_file"
    /\ fres.kind = "ok"
    /\ fres.old = "c1"
    /\ fs[fres.path] = "c2"

----------------------------------------------------------------------------
(* upload_file and read_file (SpecRoundTrip) *)

\* C31: read_file of a file that an upload_file with a successful RAG
\* indexing has created returns exactly the content given to that
\* upload_file.
C31_RoundTrip ==
    (/\ fres.tool = "read_file"
     /\ fres.kind = "ok"
     /\ last_upload[fres.path] # NoFile) =>
        fres.text = last_upload[fres.path]

\* read_file has returned a content with a line feed for a file uploaded
\* with a carriage return and a line feed.
C31_Witness ==
    /\ fres.tool = "read_file"
    /\ fres.kind = "ok"
    /\ fres.ctx = "bob"
    /\ fres.path = VaultDir("bob") \o NotePath
    /\ last_upload[fres.path] = "crlf"
    /\ fres.text = "lf"

\* upload_file for a filename that exists returns an error and leaves the
\* files as they are.
C31_DuplicateRejected ==
    [][(fres'.tool = "upload_file" /\ fres'.kind = "Error") =>
          /\ Exists(FilePath(fres'.ctx, fres'.filename))
          /\ fs' = fs]_vars

----------------------------------------------------------------------------
(* Concurrent calls of upload_file (SpecUploads) *)

\* C39: a call of upload_file that has returned success leaves the file
\* existing with the content of that call: neither the rollback (unlink) of
\* a concurrent call whose RAG indexing failed nor the write of a concurrent
\* call deletes or replaces it.
C39_SuccessKeepsFile ==
    \A t \in Tasks :
        ures[t].kind = "ok" => fs[ures[t].path] = WriteText(ures[t].text)

\* One call for a new file has returned success while a second call for the
\* same file, which passed the check before the file was written, waits
\* for the RAG service.
C39_Witness ==
    \E t \in Tasks, o \in Tasks :
        /\ t # o
        /\ ures[t].kind = "ok"
        /\ ucall[o].at = "written"
        /\ OsPath(FilePath(ucall[o].ctx, ucall[o].filename)) = ures[t].path

----------------------------------------------------------------------------
(* The steps of a sync (SpecSteps) *)

\* The sync of the current user has ended with result.
SyncEndedAs(result) ==
    /\ wpc \in {"status_read", "status_write"}
    /\ wres = result

\* The answers of the remote to the attempts of the operation step of the
\* running sync.
AnswersTo(step) ==
    {wlog[i].arg : i \in {j \in 1..Len(wlog) : wlog[j].step = step}}

\* The remote lets one of the first 1 + 3 attempts succeed.
SucceedsInTime(answers) == \E i \in 1..4 : answers[i]

\* C32: a sync fails in the pull or in the push only when the remote has
\* failed the first attempt and the 3 retries: a pull or a push that
\* succeeds within the retries does not make the sync fail.
C32_GitRetried ==
    /\ SyncEndedAs("pull_failed") =>
          \A answers \in AnswersTo("pull") : ~SucceedsInTime(answers)
    /\ SyncEndedAs("push_failed") =>
          \A answers \in AnswersTo("push") : ~SucceedsInTime(answers)

\* A sync has failed in a pull that the remote failed once.
C32_Witness ==
    /\ SyncEndedAs("pull_failed")
    /\ Outage(1) \in AnswersTo("pull")

\* The place of a step in the order ensure checkout, cleanup, pull, index,
\* push.
StepRank(step) ==
    CASE step = "ensure" -> 1
      [] step = "cleanup" -> 2
      [] step = "pull" -> 3
      [] step \in {"post", "hash"} -> 4
      [] step = "push" -> 5

\* C34: the steps of a sync are taken in the order ensure checkout, cleanup,
\* pull, index, push: no DELETE /embed of the cleanup is sent before the
\* checkout is ensured, and a sync whose pull has failed has sent no POST
\* /embed, written no hash and pushed nothing.
C34_StepsInOrder ==
    /\ \A i, j \in 1..Len(wlog) :
          i < j => StepRank(wlog[i].step) <= StepRank(wlog[j].step)
    /\ SyncEndedAs("pull_failed") =>
          \A i \in 1..Len(wlog) : wlog[i].step \notin {"post", "hash", "push"}

\* The cleanup has sent a DELETE /embed and the checkout was ensured after
\* it.
C34_Witness ==
    /\ Len(wlog) >= 2
    /\ wlog[1].step = "cleanup"
    /\ wlog[2].step = "ensure"

\* A sync whose pull has failed has sent no POST /embed, written no hash
\* and pushed nothing.
C34_NothingAfterFailedPull ==
    SyncEndedAs("pull_failed") =>
        \A i \in 1..Len(wlog) : wlog[i].step \notin {"post", "hash", "push"}

\* The markdown files of u's vault whose path has a segment that starts
\* with a dot.
HiddenMarkdown(u) ==
    {p \in VaultPaths :
        /\ content[u][p] # NoFile
        /\ EndsWithMd(p[Len(p)])
        /\ \E i \in 1..Len(p) : StartsWithDot(p[i])}

\* The file_ids of the DELETE /embed requests of the cleanup of the running
\* sync.
CleanedIds ==
    {wlog[i].arg : i \in {j \in 1..Len(wlog) : wlog[j].step = "cleanup"}}

\* C37: once the cleanup has run, a DELETE /embed was sent for every
\* markdown file of the vault with a dot-prefixed segment in its path, files
\* in hidden directories included, with the file_id index_file gives the
\* file.
C37_CleanupCoversHidden ==
    wpc = "ensure" =>
        \A p \in HiddenMarkdown(wuser) :
            WorkerFileId(wuser, VaultDir(wuser) \o p) \in CleanedIds

\* The cleanup has run in a vault with a note in .obsidian/ and a note
\* named .draft.md, and has sent one DELETE /embed, for the base name.
C37_Witness ==
    /\ wpc = "ensure"
    /\ HiddenMarkdown(wuser) = {HiddenPath, DotFilePath}
    /\ CleanedIds = {<<"user_", wuser, "_", ".draft.md">>}

\* The entry of p in sync_hashes.json is the MD5 of its content.
HashIsCurrent(u, p) ==
    /\ content[u][p] # NoFile
    /\ hashes[u][p] = Md5(content[u][p])

\* The loop of _index_vault_files indexes the file at widx.
IndexesFile == wpc = "indexing" /\ widx' = widx + 1

\* C35: the file the Worker indexes is one whose MD5 differs from its entry
\* in sync_hashes.json, and after the step its entry is its MD5: a file
\* whose entry is current is not indexed, so the cycle after a cycle that
\* indexed it sends no request for it.  The DELETE /embed requests of the
\* cleanup name no file that is indexed.
C35_UnchangedNotIndexed ==
    /\ [][IndexesFile =>
             LET p == wplan[widx]
             IN  /\ ~HashIsCurrent(wuser, p)
                 /\ hashes'[wuser][p] = Md5(content'[wuser][p])]_vars
    /\ [](\A id \in CleanedIds : \A p \in MdFiles(wuser) :
             id # WorkerFileId(wuser, VaultDir(wuser) \o p))

\* The sync of the second cycle has ended and has sent no POST /embed and
\* written no hash: every note has its current entry.
C35_Witness ==
    /\ cycle = 1
    /\ SyncEndedAs("ok")
    /\ wuser = "alice"
    /\ \A p \in NotePaths : HashIsCurrent("alice", p)
    /\ \A i \in 1..Len(wlog) : wlog[i].step \notin {"post", "hash"}
    /\ posts["alice"] = 0

\* C36: when a sync of a user has ended successfully, the changes the file
\* tools made to the user's vault before it are on the remote branch: the
\* tree has no uncommitted change and the branch no commit that the remote
\* lacks.
C36_EditsReconciled ==
    SyncEndedAs("ok") =>
        /\ tree[wuser] = "clean"
        /\ ~ahead[wuser]

\* A sync has ended successfully with a clean tree whose branch holds a
\* commit of a file tool that was never pushed.
C36_Witness ==
    /\ SyncEndedAs("ok")
    /\ tree[wuser] = "clean"
    /\ ahead[wuser]
    /\ \A i \in 1..Len(wlog) : wlog[i].step # "push"

----------------------------------------------------------------------------
(* The progress of the indexing (SpecProgress) *)

\* The markdown files of u's vault that were changed when the cycles began:
\* those indexed since and those still changed.
ChangedAtStart(u) ==
    {p \in MdFiles(u) : index_count[u][p] > 0 \/ has_changed(u, p)}

\* The Worker has run as many cycles as the throttle needs for the files of
\* u that were changed at the start: ceil(N / MAX_FILES_PER_CYCLE).
CyclesSuffice(u) ==
    cycle * MAX_FILES_PER_CYCLE >= Cardinality(ChangedAtStart(u))

\* Every file of u's vault has its current hash recorded and none has been
\* indexed twice.
AllIndexedOnce(u) ==
    /\ \A p \in MdFiles(u) : HashIsCurrent(u, p)
    /\ \A p \in VaultPaths : index_count[u][p] <= 1

\* C40 as stated: when no file is edited and every pull and every RAG
\* request succeeds, then after ceil(N / MAX_FILES_PER_CYCLE) Worker cycles
\* each of the N changed files has its current hash recorded, and no file
\* is indexed twice along the way.
C40_IndexingProgress ==
    \A u \in SyncUsers :
        /\ CyclesSuffice(u) => AllIndexedOnce(u)
        /\ \A p \in VaultPaths : index_count[u][p] <= 1

\* C40, amended: the same for a user whose sync the circuit breaker has not
\* stopped.
C40_ProgressUnlessStopped ==
    \A u \in SyncUsers :
        /\ (CyclesSuffice(u) /\ ~config[u].stopped) => AllIndexedOnce(u)
        /\ \A p \in VaultPaths : index_count[u][p] <= 1

\* Two cycles have indexed the NFiles changed notes of alice, the older
\* ones in the second cycle, each once.
C40_Witness ==
    /\ cycle * MAX_FILES_PER_CYCLE >= NFiles
    /\ ~config["alice"].stopped
    /\ \A p \in NotePaths :
          /\ index_count["alice"][p] = 1
          /\ HashIsCurrent("alice", p)

----------------------------------------------------------------------------
(* Concurrent writers of git_config.json (Spec) *)

\* The Worker writes the status of the sync it has run.
WritesStatus == wpc = "status_write" /\ wpc' = "idle"

\* The fields configure and reset_failures set.
ToolFields(c) ==
    <<c.exists, c.repo_url, c.branch, c.failure_count, c.stopped>>

\* C38: the status the Worker writes is the update of the config as it is
\* at the write: what configure or reset_failures has written since the
\* Worker read the config (repo_url, branch, failure_count = 0, stopped =
\* false) is not replaced by the copy the Worker read earlier.
C38_NoLostUpdate ==
    [][WritesStatus =>
          ToolFields(config'[wuser]) =
              ToolFields(UpdatedStatus(config[wuser], wres))]_vars

\* The Worker is about to write the status into a copy of the config that
\* it read before configure wrote another repo_url.
C38_Witness ==
    /\ wpc = "status_write"
    /\ wcfg.exists
    /\ config[wuser].repo_url # wcfg.repo_url
    /\ config[wuser].failure_count = 0

----------------------------------------------------------------------------
(* index_file (SpecIndexCall) *)

\* C33: a call of index_file returns True or False after at most 4 POST
\* /embed requests; it makes a further request only after a connection error
\* or a 5xx answer, and none after a 4xx answer.
C33_IndexFileBounded ==
    ires.done =>
        /\ ires.ok \in BOOLEAN
        /\ Len(ires.sent) <= 4
        /\ \A i \in 1..(Len(ires.sent) - 1) : ires.sent[i] \in {"conn", "5xx"}
        /\ ires.ok <=> (ires.sent # <<>> /\ ires.sent[Len(ires.sent)] = "2xx")
        /\ ires.ok = index_file(irun, 0, 0, FALSE).ok

\* index_file has returned False after 4 requests, the last one answered 5xx.
C33_Witness ==
    /\ ires.done
    /\ ~ires.ok
    /\ ires.sent = <<"conn", "5xx", "conn", "5xx">>

----------------------------------------------------------------------------
(* Gateway and Worker on one vault (SpecShared) *)

\* The Worker is inside a cycle of user u: from GitSync's construction to
\* the status update.
InWorkerCycle(u) == wuser = u /\ wpc # "idle"

\* C22: while a Worker cycle of a user runs, no file of that user's vault
\* is changed by a Gateway tool call (per-user mutual exclusion: a tool call
\* waits for the cycle to end).
C22_MutualExclusion ==
    [][\A u \in Users :
          InWorkerCycle(u) =>
              \A p \in FsPaths :
                  IsRelativeTo(p, VaultDir(u)) => fs'[p] = fs[p]]_vars

C22_Witness ==
    /\ InWorkerCycle("bob")
    /\ wpc = "push"
    /\ fcall.tool = "modify_file"
    /\ fcall.ctx = "bob"
    /\ fs[VaultDir("bob") \o NotePath] = "c2"

\* A tool call without user context has ended.
NoContextStep ==
    /\ fres' # fres
    /\ fres'.tool # "none"
    /\ fres'.ctx = NoUser

\* C18: a vault tool or sync tool called without user context fails (with
\* the ValueError of get_current_user), and the call changes no file, no
\* git_config.json, no sync_hashes.json and no row of the vector DB.
C18_NoContextFails ==
    [][/\ fcall'.tool # "none" => fcall'.ctx # NoUser
       /\ NoContextStep =>
             /\ fres'.kind = "ValueError"
             /\ UNCHANGED <<fs, vec, config, hashes, hashExists, content>>]_vars

\* reset_obsidian_sync_failures has failed without user context, with a
\* file stored and indexed.
C18_Witness ==
    /\ fres.tool = "reset_obsidian_sync_failures"
    /\ fres.ctx = NoUser
    /\ fres.kind = "ValueError"
    /\ vec # {}
    /\ fs[VaultDir("bob") \o NotePath] = "c2"

----------------------------------------------------------------------------
(* sync_hashes.json on disk (SpecHashFile) *)

\* C23: whenever the Worker is not inside a write of sync_hashes.json (also
\* after it was killed inside one, and with force_reindex at any time), the
\* file is absent or a well-formed JSON object of digests.
C23_HashFileWellFormed ==
    hpc = "idle" => hash_db = Absent \/ WellFormed(hash_db)

C23_Witness ==
    /\ hpc = "idle"
    /\ hash_db # Absent
    /\ ~WellFormed(hash_db)
    /\ hseen = "JSONDecodeError"

----------------------------------------------------------------------------
(* git_config.json on disk (SpecConfigFile) *)

\* C24: in every state git_config.json is absent (never written) or holds
\* the complete text of exactly one of the writes, never a partial or mixed
\* text.
C24_ConfigAtomic == cfg_file \in cwritten

C24_Witness ==
    /\ cfg_file \notin cwritten
    /\ ~WellFormed(cfg_file)
    /\ cpc = [w \in Writers |-> "idle"]

----------------------------------------------------------------------------
(* The sync tools (SpecSyncTools) *)

\* reset_obsidian_sync_failures of user u writes the config.
ResetWrites(u) == rreq[u].exists /\ ~rreq'[u].exists

\* reset_obsidian_sync_failures of user u ends without a config.
ResetFindsNone(u) ==
    /\ sres'.n = sres.n + 1
    /\ sres'.tool = "reset"
    /\ sres'.user = u
    /\ ~config[u].exists

\* C26: the config reset_failures writes has failure_count = 0, stopped =
\* false, no last_failure and no last_failure_error, and the repo_url,
\* branch, auto_configured and last_success of the config the call has read;
\* a call that finds no config creates none.
C26_ResetFrame ==
    [][\A u \in Users :
          /\ ResetWrites(u) =>
                /\ config'[u].exists
                /\ config'[u].failure_count = 0
                /\ config'[u].stopped = FALSE
                /\ config'[u].last_failure = "absent"
                /\ config'[u].last_failure_error = "absent"
                /\ config'[u].repo_url = rreq[u].repo_url
                /\ config'[u].branch = rreq[u].branch
                /\ config'[u].auto_configured = rreq[u].auto_configured
                /\ config'[u].last_success = rreq[u].last_success
          /\ ResetFindsNone(u) =>
                /\ ~config'[u].exists
                /\ ~rreq'[u].exists
                /\ sres'.kind = "status"]_vars

C26_Witness ==
    /\ sres.tool = "reset"
    /\ sres.kind = "read"
    /\ ~rreq["alice"].exists
    /\ config["alice"].exists
    /\ config["alice"].failure_count = 0
    /\ config["alice"].last_failure = "absent"
    /\ config["alice"].last_success = "ts"
    /\ config["alice"].branch = "dev"

\* configure_obsidian_sync has ended.
ConfigureEnds == sres'.n = sres.n + 1 /\ sres'.tool = "configure"

\* C27: configure leaves the config unchanged and returns the status
\* description when repo_url or token is absent, leaves it unchanged and
\* raises the validation error when repo_url, token or branch is a
\* placeholder, and else writes a config with failure_count = 0 and stopped =
\* false.
C27_ConfigureValidates ==
    [][ConfigureEnds =>
          LET absent == sres'.repo_url = NoArg \/ sres'.token = NoArg
              placeholder ==
                  \E v \in {sres'.repo_url, sres'.token, sres'.branch} :
                      StartsWithBraces(v) /\ EndsWithBraces(v)
              u == sres'.user
          IN  /\ absent => config' = config /\ sres'.kind = "status"
              /\ (~absent /\ placeholder) =>
                     config' = config /\ sres'.kind = "ValueError"
              /\ (~absent /\ ~placeholder) =>
                     /\ sres'.kind = "ok"
                     /\ config'[u].exists
                     /\ config'[u].repo_url = sres'.repo_url
                     /\ config'[u].failure_count = 0
                     /\ config'[u].stopped = FALSE
                     /\ \A v \in Users \ {u} : config'[v] = config[v]]_vars

C27_Witness ==
    /\ sres.tool = "configure"
    /\ sres.kind = "ValueError"
    /\ sres.repo_url = "r1"
    /\ sres.token = "tok"
    /\ sres.branch = "{{OBSIDIAN_BRANCH}}"
    /\ config["alice"].stopped

----------------------------------------------------------------------------
(* The middleware with the sync headers (SpecHeaders) *)

\* The middleware has handled a request of a valid user.
HeaderRequest == sres'.n = sres.n + 1 /\ sres'.tool = "auto_configure"

\* C25: a request whose headers name the repo_url and the branch that the
\* user's config already names does not rewrite the config: failure_count,
\* stopped and every other field stay as they are.
C25_AutoConfigureIdempotent ==
    [][HeaderRequest =>
          LET c == config[sres'.user]
          IN  (c.exists /\ c.repo_url = sres'.repo_url
                        /\ c.branch = sres'.branch) => config' = config]_vars

C25_Witness ==
    /\ sres.tool = "auto_configure"
    /\ sres.kind = "skipped"
    /\ sres.n >= 2
    /\ config["alice"].repo_url = sres.repo_url
    /\ config["alice"].branch = sres.branch
    /\ config["alice"].stopped
    /\ config["alice"].failure_count = MAX_FAILURES

\* C29: when the middleware has left a request, by the response, by the 401
\* or by an exception of the downstream handler, the context holds no user
\* id and no sync headers.
C29_ContextCleared ==
    cexit # "none" => ctx_user = NoUser /\ ctx_headers = ClearedHeaders

C29_Witness ==
    /\ cexit = "exception"
    /\ ctx_user = "alice"
    /\ ctx_headers = <<"r1", "tok", "main">>

----------------------------------------------------------------------------
(* The scheduler (SpecHang) *)

\* The scheduler is to attempt the sync of user u in the running cycle.
Owed(u) ==
    /\ cycle < MaxCycles
    /\ config[u].exists
    /\ ~config[u].stopped
    /\ u \notin visited

\* C28: in every cycle the sync of every user with a valid, non-stopped
\* config is attempted, whether the sync of another user raises or does not
\* return.
C28_NoStarvation ==
    \A u \in Users : Owed(u) ~> (u \in visited \/ config[u].stopped)

C28_Witness ==
    /\ wpc = "hung"
    /\ wuser = "alice"
    /\ Owed("bob")

----------------------------------------------------------------------------
(* The remote URL of the vault (SpecRemote) *)

\* The URL has credentials: an "@" before the first "/".
HasCredentials(url) ==
    \E k \in 1..Len(url) :
        url[k] = "@" /\ \A j \in 1..(k - 1) : url[j] # "/"

----------------------------------------------------------------------------
(* The OAuth endpoints (SpecAuth) and the middleware (SpecMcp) *)

\* The response tells the client that its code was refused, and holds no
\* token.
Refused(resp) ==
    /\ resp.status = 400
    /\ resp.error = "invalid_grant"
    /\ resp.access_token = NoCode

\* The token request of client k is answered.
TokenStep(k) == treq[k].pc = "parsed" /\ treq'[k].pc = "idle"

\* The code of k's request is one authorize has issued and no request has
\* exchanged yet.
FreshCode(k) ==
    /\ treq[k].code \in Codes
    /\ treq[k].code <= nextCode
    /\ granted[treq[k].code] = 0

\* C15: at most one token request obtains a token for a code; a request
\* with a code that was exchanged before or that was never issued is
\* answered invalid_grant and creates no token.
C15_SingleUse ==
    [][/\ \A c \in Codes : granted'[c] <= 1
       /\ \A k \in Clients :
             (TokenStep(k) /\ ~FreshCode(k)) =>
                 /\ Refused(tresp'[k])
                 /\ TOKENS' = TOKENS]_vars

\* Two clients have sent a token request with the same code, one at a time
\* or both at once: one holds a token, the other was refused.
C15_Witness ==
    /\ tresp["k1"].status = 200
    /\ Refused(tresp["k2"])
    /\ granted[1] = 1
    /\ nextCode = 1

\* The user id the state parameter names: its part before the colon.
StateUser(state) == state[1]

\* C16: the lookup of a token is absent or returns the user id of the
\* state of the authorize request whose code was exchanged for the token.
C16_TokenBoundToUser ==
    \A t \in Tokens :
        \/ get_user_from_token(t) = NoUser
        \/ /\ tokenState[t] # NoState
           /\ get_user_from_token(t) = StateUser(tokenState[t])

\* Two tokens exist, bound to different users.
C16_Witness ==
    /\ get_user_from_token(1) = "bob"
    /\ get_user_from_token(2) = "alice"
    /\ tokenState[1] = <<"bob", ":", "srv">>

\* The path is /mcp or a sub-path of it.
IsMcpPath(path) == Len(path) > 0 /\ path[1] = "mcp"

\* The middleware has handled a request.
Handled == hres.path # <<>>

\* C17: a request to /mcp or a sub-path of it without a bearer token the
\* token table knows is answered 401 with WWW-Authenticate: Bearer and is
\* not forwarded to the tools; a request to another path is never answered
\* 401 by the middleware.
C17_McpRequiresToken ==
    /\ (Handled /\ IsMcpPath(hres.path) /\ HeaderUser(hres.auth) = NoUser) =>
           /\ hres.status = 401
           /\ hres.www_authenticate = "Bearer"
           /\ ~hres.forwarded
    /\ (Handled /\ ~IsMcpPath(hres.path)) => hres.status # 401

\* A request to a sub-path of /mcp without Authorization header was
\* forwarded to the application.
C17_Witness ==
    /\ hres.path = <<"mcp", "messages">>
    /\ hres.auth = NoHeader
    /\ hres.forwarded
    /\ hres.status # 401

====
